---------------------------- MODULE Spec2Model ----------------------------
(***************************************************************************)
(* Model of backend/open_webui/utils/usage_tracking.py: the per-user usage *)
(* ledger kept in one JSON file (user_usage.json) that several processes   *)
(* read and rewrite under an advisory flock.                               *)
(*                                                                         *)
(* Abstractions:                                                           *)
(*  - wall-clock time is the integer `now` (a tick count); an ISO          *)
(*    timestamp is the tick, date.today() is Date(now), "%Y-%m" is         *)
(*    MonthAt(now);                                                        *)
(*  - a model identifier is a sequence of one-character strings;           *)
(*  - a cost (a float in the source) is the exact amount in units of       *)
(*    1/2,000,000 dollar, so prices per million tokens are doubled         *)
(*    (0.5 -> 1); float rounding is not modelled;                          *)
(*  - the file is absent, empty (zero bytes), garbage (bytes that do not   *)
(*    parse as JSON), JSON that is not an object ("[]"), or the            *)
(*    serialisation of a store.                                            *)
(***************************************************************************)
EXTENDS Integers, Sequences, FiniteSets, TLC

VARIABLES
    file,       \* the store file: [state, data]
    lock,       \* the processes holding the flock: none or one
    now,        \* the wall clock
    pc,         \* each process's position in its current call
    call,       \* each process's current (or last) call and its arguments
    loc,        \* each process's local variables
    ret,        \* what each process's last get_user_usage returned
    ncalls,     \* calls started by each process
    recorded,   \* ghost: writes in the order they were dumped to the file
    seen,       \* ghost: per process, the stores that existed during its call
    stable,     \* ghost: the store as of the latest write
    start,      \* ghost: the file at the start of the run
    out,        \* per process, how its current (or last) call went
    persisted,  \* ghost: the latest store the file held
    api         \* per process, the endpoint of routers/usage.py it is serving

vars == <<file, lock, now, pc, call, loc, ret, ncalls, recorded, seen, stable, start, out,
          persisted, api>>

---------------------------------------------------------------------------
(* Bounds of the model *)

NumProcs == 2
MaxCalls == 2
MaxTicks == 1
TicksPerDay == 2
DaysPerMonth == 2
MaxSeqCalls == 3
MaxLongCalls == 1500
MaxFaultCalls == 2
MaxTokens == 3
MaxApiCalls == 2
MaxExitCalls == 2
MaxDays == 2
MaxStatsTracks == 1
MaxLiveCalls == 2
MaxReadCalls == 2
MaxFrameCalls == 2
MaxRaceCalls == 1

(* Program constants *)

HistoryCap == 1000

\* a session record without the field last_updated
Missing == -1

Procs == 1..NumProcs
\* the two processes that run arbitrary calls against each other
Workers == {1, 2}

\* The clock runs over the end of a day that is the end of a month.
StartClock == TicksPerDay * DaysPerMonth - MaxTicks
MaxClock == StartClock + MaxTicks

Date(t) == t \div TicksPerDay
MonthOfDate(d) == d \div DaysPerMonth
MonthAt(t) == MonthOfDate(Date(t))

Users == {"a@x.com", "b@x.com"}
None == "None"

---------------------------------------------------------------------------
(* Model identifiers and the pricing table *)

UpperCase == <<"A","B","C","D","E","F","G","H","I","J","K","L","M",
               "N","O","P","Q","R","S","T","U","V","W","X","Y","Z">>
LowerCase == <<"a","b","c","d","e","f","g","h","i","j","k","l","m",
               "n","o","p","q","r","s","t","u","v","w","x","y","z">>

LowerChar(c) ==
    IF \E i \in 1..Len(UpperCase) : UpperCase[i] = c
    THEN LowerCase[CHOOSE i \in 1..Len(UpperCase) : UpperCase[i] = c]
    ELSE c

Lower(s) == [i \in 1..Len(s) |-> LowerChar(s[i])]

\* Python's `known_model in base_model`: substring test.
Contains(s, pat) ==
    \E k \in 0..(Len(s) - Len(pat)) :
        \A i \in 1..Len(pat) : s[k + i] = pat[i]

ClaudeSonnet45 == <<"c","l","a","u","d","e","-","s","o","n","n","e","t","-","4","-","5">>
ClaudeSonnet35 == <<"c","l","a","u","d","e","-","s","o","n","n","e","t","-","3","-","5">>
ClaudeOpus4 == <<"c","l","a","u","d","e","-","o","p","u","s","-","4">>
Gpt4 == <<"g","p","t","-","4">>
Gpt4Turbo == <<"g","p","t","-","4","-","t","u","r","b","o">>
Gpt35Turbo == <<"g","p","t","-","3",".","5","-","t","u","r","b","o">>
Gpt4TurboMixed == <<"G","P","T","-","4","-","T","u","r","b","o">>
Llama3 == <<"l","l","a","m","a","-","3">>
TurboOnOpus == <<"g","p","t","-","3",".","5","-","t","u","r","b","o","+",
                 "C","l","a","u","d","e","-","O","p","u","s","-","4">>
Sonnet35On45 == <<"c","l","a","u","d","e","-","s","o","n","n","e","t","-","3","-","5","/",
                  "c","l","a","u","d","e","-","s","o","n","n","e","t","-","4","-","5">>
Unnamed == <<>>

\* MODEL_PRICING in declaration order; prices are per million tokens, doubled.
MODEL_PRICING == <<
    [key |-> ClaudeSonnet45, input |-> 6,  output |-> 30],
    [key |-> ClaudeSonnet35, input |-> 6,  output |-> 30],
    [key |-> ClaudeOpus4,    input |-> 30, output |-> 150],
    [key |-> Gpt4,           input |-> 60, output |-> 120],
    [key |-> Gpt4Turbo,      input |-> 20, output |-> 60],
    [key |-> Gpt35Turbo,     input |-> 1,  output |-> 3] >>

DefaultPricingOfOpus == [input |-> 30, output |-> 150]

DefaultPricing == [input |-> 6, output |-> 30]

calculate_costLastMatch(model, input_tokens, output_tokens) ==
    LET base_model == Lower(model)
        hits == {i \in 1..Len(MODEL_PRICING) : Contains(base_model, MODEL_PRICING[i].key)}
        pricing == IF hits = {} THEN DefaultPricing
                   ELSE MODEL_PRICING[CHOOSE i \in hits : \A j \in hits : j <= i]
    IN  input_tokens * pricing.input + output_tokens * pricing.output

calculate_costMinimumCharge(model, input_tokens, output_tokens) ==
    LET base_model == Lower(model)
        hits == {i \in 1..Len(MODEL_PRICING) : Contains(base_model, MODEL_PRICING[i].key)}
        pricing == IF hits = {} THEN DefaultPricing
                   ELSE MODEL_PRICING[CHOOSE i \in hits : \A j \in hits : i <= j]
    IN  1 + input_tokens * pricing.input + output_tokens * pricing.output

\* calculate_cost: the first key (in declaration order) contained in the
\* lower-cased identifier prices the event; no key: the default prices.
calculate_cost(model, input_tokens, output_tokens) ==
    LET base_model == Lower(model)
        hits == {i \in 1..Len(MODEL_PRICING) : Contains(base_model, MODEL_PRICING[i].key)}
        pricing == IF hits = {} THEN DefaultPricing
                   ELSE MODEL_PRICING[CHOOSE i \in hits : \A j \in hits : i <= j]
    IN  input_tokens * pricing.input + output_tokens * pricing.output

---------------------------------------------------------------------------
(* The store and the in-memory update of track_usage *)

EmptyMap == [x \in {} |-> 0]
EmptyStore == EmptyMap
EmptyLedger == [daily |-> EmptyMap, monthly |-> EmptyMap,
                sessions |-> EmptyMap, history |-> <<>>]

Put(f, k, v) == [x \in (DOMAIN f) \cup {k} |-> IF x = k THEN v ELSE f[x]]
Drop(f, ks) == [x \in (DOMAIN f) \ ks |-> f[x]]

ZeroDaily == [tokens_input |-> 0, tokens_output |-> 0, tokens_total |-> 0, cost |-> 0]
ZeroMonthly == [tokens_total |-> 0, cost |-> 0]

UpdateDailyCostOverwritten(daily, today, input_tokens, output_tokens, cost) ==
    LET b == IF today \in DOMAIN daily THEN daily[today] ELSE ZeroDaily
    IN  Put(daily, today,
            [tokens_input |-> b.tokens_input + input_tokens,
             tokens_output |-> b.tokens_output + output_tokens,
             tokens_total |-> b.tokens_total + input_tokens + output_tokens,
             cost |-> cost])

UpdateDailyTotalOmitsOutput(daily, today, input_tokens, output_tokens, cost) ==
    LET b == IF today \in DOMAIN daily THEN daily[today] ELSE ZeroDaily
    IN  Put(daily, today,
            [tokens_input |-> b.tokens_input + input_tokens,
             tokens_output |-> b.tokens_output + output_tokens,
             tokens_total |-> b.tokens_total + input_tokens,
             cost |-> b.cost + cost])

\* lines 107-118
UpdateDaily(daily, today, input_tokens, output_tokens, cost) ==
    LET b == IF today \in DOMAIN daily THEN daily[today] ELSE ZeroDaily
    IN  Put(daily, today,
            [tokens_input |-> b.tokens_input + input_tokens,
             tokens_output |-> b.tokens_output + output_tokens,
             tokens_total |-> b.tokens_total + input_tokens + output_tokens,
             cost |-> b.cost + cost])

\* lines 121-128
UpdateMonthly(monthly, current_month, input_tokens, output_tokens, cost) ==
    LET b == IF current_month \in DOMAIN monthly THEN monthly[current_month]
             ELSE ZeroMonthly
    IN  Put(monthly, current_month,
            [tokens_total |-> b.tokens_total + input_tokens + output_tokens,
             cost |-> b.cost + cost])

\* `if session_id:` is false for None and for the empty string.
Truthy(session_id) == session_id # None /\ session_id # ""

UpdateSessionsRestarts(sessions, session_id, timestamp, input_tokens, output_tokens, cost) ==
    IF ~Truthy(session_id) THEN sessions
    ELSE Put(sessions, session_id,
             [tokens_input |-> input_tokens,
              tokens_output |-> output_tokens,
              tokens_total |-> input_tokens + output_tokens,
              cost |-> cost,
              started_at |-> timestamp,
              last_updated |-> timestamp])

\* lines 131-145
UpdateSessions(sessions, session_id, timestamp, input_tokens, output_tokens, cost) ==
    IF ~Truthy(session_id) THEN sessions
    ELSE LET b == IF session_id \in DOMAIN sessions THEN sessions[session_id]
                  ELSE [tokens_input |-> 0, tokens_output |-> 0, tokens_total |-> 0,
                        cost |-> 0, started_at |-> timestamp, last_updated |-> timestamp]
         IN  Put(sessions, session_id,
                 [tokens_input |-> b.tokens_input + input_tokens,
                  tokens_output |-> b.tokens_output + output_tokens,
                  tokens_total |-> b.tokens_total + input_tokens + output_tokens,
                  cost |-> b.cost + cost,
                  started_at |-> b.started_at,
                  last_updated |-> timestamp])

HistoryEntry(c, l) ==
    [model |-> c.model, timestamp |-> l.timestamp, input_tokens |-> c.input_tokens,
     output_tokens |-> c.output_tokens, cost |-> l.cost, session_id |-> c.session_id]

TrimHistoryKeepsOldest(h) ==
    IF Len(h) > HistoryCap THEN SubSeq(h, 1, HistoryCap) ELSE h

TrimHistoryUnbounded(h) == h

\* lines 158-159: history[-1000:]
TrimHistory(h) ==
    IF Len(h) > HistoryCap THEN SubSeq(h, Len(h) - HistoryCap + 1, Len(h)) ELSE h

RecordUsageAlone(data, c, l) ==
    LET u == c.user
        user_data == IF u \in DOMAIN data THEN data[u] ELSE EmptyLedger
    IN  Put(EmptyStore, u,
            [daily |-> UpdateDaily(user_data.daily, l.today,
                                   c.input_tokens, c.output_tokens, l.cost),
             monthly |-> UpdateMonthly(user_data.monthly, l.current_month,
                                       c.input_tokens, c.output_tokens, l.cost),
             sessions |-> UpdateSessions(user_data.sessions, c.session_id, l.timestamp,
                                         c.input_tokens, c.output_tokens, l.cost),
             history |-> TrimHistory(Append(user_data.history, HistoryEntry(c, l)))])

\* lines 96-159: the store track_usage writes back, from the store it loaded
\* (data), its arguments (c) and its locals (l).
RecordUsage(data, c, l) ==
    LET u == c.user
        user_data == IF u \in DOMAIN data THEN data[u] ELSE EmptyLedger
    IN  Put(data, u,
            [daily |-> UpdateDaily(user_data.daily, l.today,
                                   c.input_tokens, c.output_tokens, l.cost),
             monthly |-> UpdateMonthly(user_data.monthly, l.current_month,
                                       c.input_tokens, c.output_tokens, l.cost),
             sessions |-> UpdateSessions(user_data.sessions, c.session_id, l.timestamp,
                                         c.input_tokens, c.output_tokens, l.cost),
             history |-> TrimHistory(Append(user_data.history, HistoryEntry(c, l)))])


StaleInclusive(sessions, cutoff) ==
    {sid \in DOMAIN sessions : sessions[sid].last_updated <= cutoff}

StaleOnlyOne(sessions, cutoff) ==
    LET old == {sid \in DOMAIN sessions : sessions[sid].last_updated < cutoff}
    IN  IF old = {} THEN {} ELSE {CHOOSE sid \in old : TRUE}

\* lines 212-224 of cleanup_old_sessions: sessions whose last_updated (or
\* started_at) parses to a time before the cutoff are deleted.
Stale(sessions, cutoff) ==
    {sid \in DOMAIN sessions : sessions[sid].last_updated < cutoff}

SweepSessionsClearsHistory(data, u, cutoff) ==
    [data EXCEPT ![u].sessions = Drop(@, Stale(@, cutoff)), ![u].history = <<>>]

SweepSessions(data, u, cutoff) ==
    [data EXCEPT ![u].sessions = Drop(@, Stale(@, cutoff))]

---------------------------------------------------------------------------
(* The file *)

Absent == [state |-> "absent", data |-> EmptyStore]
Empty == [state |-> "empty", data |-> EmptyStore]
Garbage == [state |-> "garbage", data |-> EmptyStore]
Stored(s) == [state |-> "store", data |-> s]

\* valid JSON that is not an object: "[]" (two bytes, as "{}")
Misshapen == [state |-> "json", data |-> EmptyStore]

\* json.load of the file's bytes gives a store.
Parses(f) == f.state = "store"

\* json.load raises JSONDecodeError: no bytes, or bytes that are not JSON.
Undecodable(f) == f.state \in {"empty", "garbage"}

\* the store the file holds: none when the file is not there or not a store
StoreOf(f) == IF Parses(f) THEN f.data ELSE EmptyStore

\* The possible contents after `content` is written at offset 0 of a file
\* holding f (every writer writes at offset 0 and nothing is truncated by
\* the write itself).  "{}" is two bytes and every serialised store is at
\* least that long.  A write over a longer content leaves that content's
\* tail behind, which does not parse; byte lengths of non-empty stores are
\* not modelled, so either outcome is possible there.
WriteAtStart(content, f) ==
    CASE f.state \in {"empty", "json"} -> {Stored(content)}
      [] f.state = "store" /\ (f.data = EmptyStore \/ f.data = content) -> {Stored(content)}
      [] content = EmptyStore -> {Garbage}
      [] OTHER -> {Stored(content), Garbage}

---------------------------------------------------------------------------
(* Calls and locals *)

\* `typed`: the arguments have the types of the signature (the token
\* counts are numbers, the model is a string)
NoCall == [op |-> "none", user |-> "", model |-> <<>>, input_tokens |-> 0,
           output_tokens |-> 0, session_id |-> None, keep_days |-> 0,
           typed |-> TRUE]

\* How a call went: the place where an exception arose that the call's
\* `except Exception` caught ("none": no exception), whether an exception
\* reached the caller, whether track_usage dumped its event, and (ghosts,
\* kept in the runs that begin with `audit` set) the file and the clock when
\* the call began and the call made before.
NoOut == [error |-> "none", raised |-> FALSE, saved |-> FALSE, audit |-> FALSE,
          before |-> Absent, began |-> 0, last |-> NoCall, last_began |-> 0]

Audited == [NoOut EXCEPT !.audit = TRUE]

\* a call begins: track_usage is compared with the file it found
Begin(p) == IF out[p].audit THEN [Audited EXCEPT !.before = file] ELSE NoOut

\* cleanup_old_sessions is also compared with the clock it found and with
\* the call made before it
BeginSweep(p) ==
    IF out[p].audit
    THEN [Audited EXCEPT !.before = file, !.began = now,
                         !.last = call[p], !.last_began = out[p].began]
    ELSE NoOut

Persist(f) == IF Parses(f) THEN f.data ELSE persisted

NoLoc == [cost |-> 0, timestamp |-> 0, today |-> 0, current_month |-> 0,
          cutoff |-> 0, data |-> EmptyStore, sessions_to_delete |-> {},
          pending |-> FALSE]

TrackCallOf(u, m, i, o, s) ==
    [op |-> "track_usage", user |-> u, model |-> m, input_tokens |-> i,
     output_tokens |-> o, session_id |-> s, keep_days |-> 0, typed |-> TRUE]

\* the same call with a token count that is not a number
Mistyped(c) == [c EXCEPT !.typed = FALSE]

GetCallOf(u) == [NoCall EXCEPT !.op = "get_user_usage", !.user = u]

CleanupCallOf(u, k) ==
    [NoCall EXCEPT !.op = "cleanup_old_sessions", !.user = u, !.keep_days = k]

Idle(p) == pc[p] \in {"idle", "done"}
InCall(p) == ~Idle(p)

\* An endpoint being served: its name, the step it is at, the number of
\* calls the process had made when the step began, its arguments, its clock
\* reads, its loop counter and the parts of its response.  `before` and
\* `began` are ghosts: the file and the clock when the endpoint was called.
NoApi == [op |-> "none", phase |-> "none", base |-> 0, user |-> "",
          session_id |-> None, n |-> 0, today |-> 0, month |-> 0, offset |-> 0,
          daily |-> ZeroDaily, monthly |-> ZeroMonthly, session |-> ZeroDaily,
          history |-> <<>>, status |-> "", success |-> FALSE, before |-> Absent,
          began |-> 0]

\* the process serves no endpoint
Free(p) == api[p].phase \in {"none", "replied"}

\* the endpoint is about to call get_user_usage
Fetching(p) ==
    api[p].phase \in {"daily", "monthly", "session", "fetch"} /\ ncalls[p] = api[p].base

\* the get_user_usage call of the endpoint's step has returned
Fetched(p) == pc[p] = "done" /\ ncalls[p] = api[p].base + 1

\* ghost bookkeeping: a store that exists from now on is seen by every
\* get_user_usage call in progress and by every endpoint being served.
Witnessed(s) ==
    [q \in Procs |->
        IF (call[q].op = "get_user_usage" /\ InCall(q)) \/ ~Free(q)
        THEN seen[q] \cup {s} ELSE seen[q]]

EventLog(p) ==
    [kind |-> "event", user |-> call[p].user, entry |-> HistoryEntry(call[p], loc[p]),
     today |-> loc[p].today, month |-> loc[p].current_month, swept |-> {}]

SweepLog(p, gone) ==
    [kind |-> "sweep", user |-> call[p].user, entry |-> HistoryEntry(NoCall, NoLoc),
     today |-> 0, month |-> 0, swept |-> gone]

---------------------------------------------------------------------------
(* The clock *)

Tick ==
    /\ now < MaxClock
    /\ now' = now + 1
    /\ UNCHANGED <<file, lock, pc, call, loc, ret, ncalls, recorded, seen, stable, start, api, out, persisted>>

---------------------------------------------------------------------------
(* locked_json_file, lines 31-47 *)

\* lines 34-37: os.path.exists; an existing file is opened (line 41), which
\* changes nothing another process can observe.
FileCheck(p) ==
    /\ pc[p] = "check"
    /\ pc' = [pc EXCEPT ![p] = IF file.state = "absent" THEN "create" ELSE "lock"]
    /\ UNCHANGED <<file, lock, now, call, loc, ret, ncalls, recorded, seen, stable, start, api, out, persisted>>

\* line 38: open(file_path, 'w') creates the file or truncates it.
FileCreate(p) ==
    /\ pc[p] = "create"
    /\ file' = Empty
    /\ pc' = [pc EXCEPT ![p] = "create_close"]
    /\ UNCHANGED <<lock, now, call, loc, ret, ncalls, recorded, seen, stable, start, api, out, persisted>>

\* line 39 and the end of its `with`: "{}" is written at offset 0 when the
\* file object is closed; then the file is opened in the caller's mode.
FileCreateClose(p) ==
    /\ pc[p] = "create_close"
    /\ \E f \in WriteAtStart(EmptyStore, file) :
        /\ file' = f
        /\ seen' = IF Parses(f) THEN Witnessed(EmptyStore) ELSE seen
        /\ stable' = IF Parses(f) THEN EmptyStore ELSE stable
        /\ persisted' = Persist(f)
    /\ pc' = [pc EXCEPT ![p] = "lock"]
    /\ UNCHANGED <<lock, now, call, loc, ret, ncalls, recorded, start, api, out>>

LockFreeNoFlock == TRUE

LockFree == lock = {}

\* line 43: flock(LOCK_EX) blocks until no other open file holds the lock.
Lock(p) ==
    /\ pc[p] = "lock"
    /\ LockFree
    /\ lock' = {p}
    /\ pc' = [pc EXCEPT ![p] = "load"]
    /\ UNCHANGED <<file, now, call, loc, ret, ncalls, recorded, seen, stable, start, api, out, persisted>>

UnlockUnlessRaised(p) ==
    /\ pc[p] = "unlock"
    /\ lock' = IF out[p].error = "none" THEN {} ELSE lock
    /\ pc' = [pc EXCEPT ![p] = IF loc[p].pending THEN "close" ELSE "done"]
    /\ loc' = [loc EXCEPT ![p] = IF loc[p].pending THEN @ ELSE NoLoc]
    /\ UNCHANGED <<file, now, call, ret, ncalls, recorded, seen, stable, start, api, out, persisted>>

UnlockHoldsLock(p) ==
    /\ pc[p] = "unlock"
    /\ lock' = lock
    /\ pc' = [pc EXCEPT ![p] = IF loc[p].pending THEN "close" ELSE "done"]
    /\ loc' = [loc EXCEPT ![p] = IF loc[p].pending THEN @ ELSE NoLoc]
    /\ UNCHANGED <<file, now, call, ret, ncalls, recorded, seen, stable, start, api, out, persisted>>

\* line 46: flock(LOCK_UN).  Line 47 (close) follows as a step of its own
\* only when the file object still buffers unwritten data.
Unlock(p) ==
    /\ pc[p] = "unlock"
    /\ lock' = {}
    /\ pc' = [pc EXCEPT ![p] = IF loc[p].pending THEN "close" ELSE "done"]
    /\ loc' = [loc EXCEPT ![p] = IF loc[p].pending THEN @ ELSE NoLoc]
    /\ UNCHANGED <<file, now, call, ret, ncalls, recorded, seen, stable, start, api, out, persisted>>

\* line 47: close() writes the buffered data out, at offset 0.
Close(p) ==
    /\ pc[p] = "close"
    /\ file' \in WriteAtStart(loc[p].data, file)
    /\ persisted' = Persist(file')
    /\ pc' = [pc EXCEPT ![p] = "done"]
    /\ loc' = [loc EXCEPT ![p] = NoLoc]
    /\ UNCHANGED <<lock, now, call, ret, ncalls, recorded, seen, stable, start, api, out>>

\* f.seek(0); f.truncate(): lines 162-163 and 227-228.
Truncate(p) ==
    /\ pc[p] = "truncate"
    /\ file' = Empty
    /\ pc' = [pc EXCEPT ![p] = "dump"]
    /\ UNCHANGED <<lock, now, call, loc, ret, ncalls, recorded, seen, stable, start, api, out, persisted>>

---------------------------------------------------------------------------
(* track_usage, lines 66-171 *)

\* line 84 divides the token counts by 1_000_000 (line 57): a count that is
\* not a number raises TypeError.
WellTyped(c) == c.typed

\* lines 84-85: the cost, and the first clock read (timestamp); an
\* exception of line 84 is caught at line 170 and the call returns.
TrackCall(p, events, budget) ==
    /\ Idle(p)
    /\ budget
    /\ \E c \in events :
        /\ call' = [call EXCEPT ![p] = c]
        /\ IF WellTyped(c)
           THEN /\ loc' = [loc EXCEPT ![p] =
                            [NoLoc EXCEPT !.cost = calculate_cost(c.model, c.input_tokens,
                                                                  c.output_tokens),
                                          !.timestamp = now]]
                /\ pc' = [pc EXCEPT ![p] = "today"]
                /\ out' = [out EXCEPT ![p] = Begin(p)]
           ELSE /\ loc' = [loc EXCEPT ![p] = NoLoc]
                /\ pc' = [pc EXCEPT ![p] = "done"]
                /\ out' = [out EXCEPT ![p] = [Begin(p) EXCEPT !.error = "cost"]]
    /\ ncalls' = [ncalls EXCEPT ![p] = @ + 1]
    /\ seen' = [seen EXCEPT ![p] = {}]
    /\ UNCHANGED <<file, lock, now, ret, recorded, stable, start, api, persisted>>

\* line 86: the second clock read.
TrackToday(p) ==
    /\ pc[p] = "today"
    /\ loc' = [loc EXCEPT ![p].today = Date(now)]
    /\ pc' = [pc EXCEPT ![p] = "month"]
    /\ UNCHANGED <<file, lock, now, call, ret, ncalls, recorded, seen, stable, start, api, out, persisted>>

\* line 87: the third clock read.
TrackMonth(p) ==
    /\ pc[p] = "month"
    /\ loc' = [loc EXCEPT ![p].current_month = MonthAt(now)]
    /\ pc' = [pc EXCEPT ![p] = "check"]
    /\ UNCHANGED <<file, lock, now, call, ret, ncalls, recorded, seen, stable, start, api, out, persisted>>

\* lines 90-159: json.load (JSONDecodeError counts as {}) and the update of
\* the loaded store in memory.  JSON that is not an object ("[]") loads,
\* and line 97 raises TypeError on it: caught at line 170, nothing written.
TrackLoad(p) ==
    /\ pc[p] = "load"
    /\ call[p].op = "track_usage"
    /\ IF Parses(file) \/ Undecodable(file)
       THEN /\ loc' = [loc EXCEPT ![p].data =
                        RecordUsage(StoreOf(file), call[p], loc[p])]
            /\ pc' = [pc EXCEPT ![p] = "truncate"]
            /\ out' = out
       ELSE /\ loc' = loc
            /\ pc' = [pc EXCEPT ![p] = "unlock"]
            /\ out' = [out EXCEPT ![p].error = "update"]
    /\ UNCHANGED <<file, lock, now, call, ret, ncalls, recorded, seen, stable, start, api, persisted>>

\* lines 164-166: json.dump, flush, fsync.
TrackDump(p) ==
    /\ pc[p] = "dump"
    /\ call[p].op = "track_usage"
    /\ file' \in WriteAtStart(loc[p].data, file)
    /\ pc' = [pc EXCEPT ![p] = "unlock"]
    /\ recorded' = Append(recorded, EventLog(p))
    /\ seen' = Witnessed(loc[p].data)
    /\ stable' = loc[p].data
    /\ persisted' = Persist(file')
    /\ out' = [out EXCEPT ![p].saved = TRUE]
    /\ UNCHANGED <<lock, now, call, loc, ret, ncalls, start, api>>

---------------------------------------------------------------------------
(* get_user_usage, lines 174-200 *)

GetCallThroughLock(p, users, budget) ==
    /\ Idle(p)
    /\ budget
    /\ \E u \in users : call' = [call EXCEPT ![p] = GetCallOf(u)]
    /\ ncalls' = [ncalls EXCEPT ![p] = @ + 1]
    /\ loc' = [loc EXCEPT ![p] = NoLoc]
    /\ pc' = [pc EXCEPT ![p] = "check"]
    /\ ret' = [ret EXCEPT ![p] = EmptyLedger]
    /\ seen' = [seen EXCEPT ![p] = IF Free(p) THEN {stable} ELSE @ \cup {stable}]
    /\ out' = [out EXCEPT ![p] = Begin(p)]
    /\ UNCHANGED <<file, lock, now, recorded, stable, start, api, persisted>>

\* lines 177-183: no file, no lock: the empty ledger.
GetCall(p, users, budget) ==
    /\ Idle(p)
    /\ budget
    /\ \E u \in users : call' = [call EXCEPT ![p] = GetCallOf(u)]
    /\ ncalls' = [ncalls EXCEPT ![p] = @ + 1]
    /\ loc' = [loc EXCEPT ![p] = NoLoc]
    /\ IF file.state = "absent"
       THEN /\ pc' = [pc EXCEPT ![p] = "done"]
       ELSE /\ pc' = [pc EXCEPT ![p] = "check"]
    /\ ret' = [ret EXCEPT ![p] = EmptyLedger]
    /\ seen' = [seen EXCEPT ![p] = IF Free(p) THEN {stable} ELSE @ \cup {stable}]
    /\ out' = [out EXCEPT ![p] = Begin(p)]
    /\ UNCHANGED <<file, lock, now, recorded, stable, start, api, persisted>>

LoadAndGetNothing(f, user_email) == EmptyLedger

\* lines 186-200: json.load and data.get; a file that json.load rejects, or
\* JSON without a `get` ("[]"), raises, and the handler of line 193 returns
\* the empty ledger.
LoadAndGet(f, user_email) ==
    IF Parses(f) /\ user_email \in DOMAIN f.data THEN f.data[user_email]
    ELSE EmptyLedger

GetLoad(p) ==
    /\ pc[p] = "load"
    /\ call[p].op = "get_user_usage"
    /\ ret' = [ret EXCEPT ![p] = LoadAndGet(file, call[p].user)]
    /\ out' = [out EXCEPT ![p].error = IF Parses(file) THEN "none" ELSE "load"]
    /\ pc' = [pc EXCEPT ![p] = "unlock"]
    /\ UNCHANGED <<file, lock, now, call, loc, ncalls, recorded, seen, stable, start, api, persisted>>

---------------------------------------------------------------------------
(* cleanup_old_sessions, lines 203-234 *)

\* line 207: cutoff_date = now - keep_days days.
CleanupCall(p, users, keeps, budget) ==
    /\ Idle(p)
    /\ budget
    /\ \E u \in users, k \in keeps :
        /\ call' = [call EXCEPT ![p] = CleanupCallOf(u, k)]
        /\ loc' = [loc EXCEPT ![p] = [NoLoc EXCEPT !.cutoff = now - k * TicksPerDay]]
    /\ pc' = [pc EXCEPT ![p] = "check"]
    /\ ncalls' = [ncalls EXCEPT ![p] = @ + 1]
    /\ seen' = [seen EXCEPT ![p] = {}]
    /\ out' = [out EXCEPT ![p] = BeginSweep(p)]
    /\ UNCHANGED <<file, lock, now, ret, recorded, stable, start, api, persisted>>

\* lines 210-224: json.load raises on an unparseable file (caught at line
\* 233, nothing is written); a store without the user is left alone.
CleanupLoad(p) ==
    /\ pc[p] = "load"
    /\ call[p].op = "cleanup_old_sessions"
    /\ IF Parses(file) /\ call[p].user \in DOMAIN file.data
       THEN /\ loc' = [loc EXCEPT
                       ![p].data = SweepSessions(file.data, call[p].user, loc[p].cutoff),
                       ![p].sessions_to_delete =
                           Stale(file.data[call[p].user].sessions, loc[p].cutoff)]
            /\ pc' = [pc EXCEPT ![p] = "truncate"]
       ELSE /\ loc' = loc
            /\ pc' = [pc EXCEPT ![p] = "unlock"]
    /\ out' = [out EXCEPT ![p].error = IF Undecodable(file) THEN "load" ELSE "none"]
    /\ UNCHANGED <<file, lock, now, call, ret, ncalls, recorded, seen, stable, start, api, persisted>>

\* line 229: json.dump into the file object's buffer; nothing flushes it
\* before the lock is released.
CleanupDump(p) ==
    /\ pc[p] = "dump"
    /\ call[p].op = "cleanup_old_sessions"
    /\ loc' = [loc EXCEPT ![p].pending = TRUE]
    /\ pc' = [pc EXCEPT ![p] = "unlock"]
    /\ recorded' = Append(recorded, SweepLog(p, loc[p].sessions_to_delete))
    /\ seen' = Witnessed(loc[p].data)
    /\ stable' = loc[p].data
    /\ UNCHANGED <<file, lock, now, call, ret, ncalls, start, api, out, persisted>>


---------------------------------------------------------------------------
(* Failures of the environment *)

\* lines 38 and 41: open raises OSError (no permission, no descriptor left).
\* The exception leaves locked_json_file before its try and is caught by
\* the caller's `except Exception` (lines 170, 193).
OpenFails(p) ==
    /\ pc[p] = "check"
    /\ pc' = [pc EXCEPT ![p] = "done"]
    /\ loc' = [loc EXCEPT ![p] = NoLoc]
    /\ out' = [out EXCEPT ![p].error = "open"]
    /\ UNCHANGED <<file, lock, now, call, ret, ncalls, recorded, seen, stable, start, api, persisted>>

\* line 43: flock raises OSError (no locks left); lines 46-47 run, and the
\* caller's `except Exception` catches it.
LockFails(p) ==
    /\ pc[p] = "lock"
    /\ pc' = [pc EXCEPT ![p] = "done"]
    /\ loc' = [loc EXCEPT ![p] = NoLoc]
    /\ out' = [out EXCEPT ![p].error = "flock"]
    /\ UNCHANGED <<file, lock, now, call, ret, ncalls, recorded, seen, stable, start, api, persisted>>

\* lines 164-166 raise after the truncation of line 163: json.dump (a
\* value it cannot encode, a failing write) leaves no bytes or a part of the
\* text; a failing fsync leaves the whole text.  Caught at line 170.
TrackDumpFails(p) ==
    /\ pc[p] = "dump"
    /\ call[p].op = "track_usage"
    /\ \E f \in {Empty, Garbage, Stored(loc[p].data)} :
        /\ file' = f
        /\ persisted' = Persist(f)
        /\ recorded' = IF Parses(f) THEN Append(recorded, EventLog(p)) ELSE recorded
        /\ seen' = IF Parses(f) THEN Witnessed(loc[p].data) ELSE seen
        /\ stable' = IF Parses(f) THEN loc[p].data ELSE stable
        /\ out' = [out EXCEPT ![p].error = "dump", ![p].saved = Parses(f)]
    /\ pc' = [pc EXCEPT ![p] = "unlock"]
    /\ UNCHANGED <<lock, now, call, loc, ret, ncalls, start, api>>

---------------------------------------------------------------------------
(* The /track endpoint, routers/usage.py lines 282-312 *)

\* track_usage returns nothing; the endpoint answers success unless
\* track_usage raised.
track_usage_endpoint(p) ==
    IF out[p].raised
    THEN [status |-> "500", success |-> FALSE]
    ELSE [status |-> "200", success |-> TRUE]

---------------------------------------------------------------------------
(* Inputs *)

KeepDays == {0}

\* calls made by concurrent processes
ConcEvents ==
    {TrackCallOf("a@x.com", Gpt4, 1, 2, None),
     TrackCallOf("a@x.com", Gpt4, 1, 2, "s1"),
     TrackCallOf("b@x.com", Gpt4, 1, 2, None)}

\* calls made by processes that all record for one user
TrackerEvents ==
    {TrackCallOf("a@x.com", Gpt4, 1, 2, None),
     TrackCallOf("a@x.com", Gpt4, 1, 2, "s1")}

\* calls made by one process, one after the other
SeqEvents ==
    {TrackCallOf("a@x.com", Gpt4, 1000, 500, None),
     TrackCallOf("a@x.com", Gpt4, 500, 100, "s1"),
     TrackCallOf("a@x.com", Llama3, 200, 50, "s1"),
     TrackCallOf("a@x.com", Gpt4TurboMixed, 200, 50, "")}

\* the k-th call of a long run
LongEvent(k) == TrackCallOf("a@x.com", Gpt35Turbo, k, 1, None)

\* A store the program reaches: one event with a session, recorded at the
\* start of the run.
SeedStore ==
    RecordUsage(EmptyStore, TrackCallOf("a@x.com", Gpt4, 1, 2, "s1"),
                [NoLoc EXCEPT !.cost = calculate_cost(Gpt4, 1, 2),
                              !.timestamp = StartClock,
                              !.today = Date(StartClock),
                              !.current_month = MonthAt(StartClock)])

---------------------------------------------------------------------------
(* Specifications *)

InitFrom(files, outs) ==
    /\ file \in files
    /\ lock = {}
    /\ now = StartClock
    /\ pc = [p \in Procs |-> "idle"]
    /\ call = [p \in Procs |-> NoCall]
    /\ loc = [p \in Procs |-> NoLoc]
    /\ ret = [p \in Procs |-> EmptyLedger]
    /\ ncalls = [p \in Procs |-> 0]
    /\ recorded = <<>>
    /\ seen = [p \in Procs |-> {}]
    /\ stable = file.data
    /\ start = file
    /\ out = [p \in Procs |-> outs]
    /\ persisted = file.data
    /\ api = [p \in Procs |-> NoApi]

InitWith(files) == InitFrom(files, NoOut)

RECURSIVE SumCalls(_)
SumCalls(n) == IF n = 0 THEN 0 ELSE ncalls[n] + SumCalls(n - 1)
CallsMade == SumCalls(NumProcs)

\* Any process may call any operation, MaxCalls calls in all; the file is
\* not there yet, or holds a store written earlier.
Init == InitWith({Absent, Stored(SeedStore)})

Next ==
    \/ Tick
    \/ \E p \in Workers :
        \/ TrackCall(p, ConcEvents, CallsMade < MaxCalls)
        \/ TrackToday(p)
        \/ TrackMonth(p)
        \/ FileCheck(p)
        \/ FileCreate(p)
        \/ FileCreateClose(p)
        \/ Lock(p)
        \/ TrackLoad(p)
        \/ Truncate(p)
        \/ TrackDump(p)
        \/ Unlock(p)
        \/ Close(p)
        \/ GetCall(p, {"a@x.com"}, CallsMade < MaxCalls)
        \/ GetLoad(p)
        \/ CleanupCall(p, {"a@x.com"}, KeepDays, CallsMade < MaxCalls)
        \/ CleanupLoad(p)
        \/ CleanupDump(p)

Spec == Init /\ [][Next]_vars


\* The file exists and holds a store; every process calls track_usage once,
\* all for the same user.
InitTrackers == InitWith({Stored(EmptyStore), Stored(SeedStore)})

NextTrackers ==
    \/ Tick
    \/ \E p \in Procs :
        \/ TrackCall(p, TrackerEvents, ncalls[p] = 0)
        \/ TrackToday(p)
        \/ TrackMonth(p)
        \/ FileCheck(p)
        \/ Lock(p)
        \/ TrackLoad(p)
        \/ Truncate(p)
        \/ TrackDump(p)
        \/ Unlock(p)

SpecTrackers == InitTrackers /\ [][NextTrackers]_vars

\* One process makes its calls one after the other, from no file at all.
InitSeq == InitWith({Absent})

NextSeq ==
    \/ Tick
    \/ \E p \in {1} :
        \/ TrackCall(p, SeqEvents, ncalls[p] < MaxSeqCalls)
        \/ TrackToday(p)
        \/ TrackMonth(p)
        \/ FileCheck(p)
        \/ FileCreate(p)
        \/ FileCreateClose(p)
        \/ Lock(p)
        \/ TrackLoad(p)
        \/ Truncate(p)
        \/ TrackDump(p)
        \/ Unlock(p)
        \/ Close(p)
        \/ GetCall(p, {"a@x.com"}, ncalls[p] < MaxSeqCalls)
        \/ GetLoad(p)
        \/ CleanupCall(p, {"a@x.com"}, KeepDays, ncalls[p] < MaxSeqCalls)
        \/ CleanupLoad(p)
        \/ CleanupDump(p)

SpecSeq == InitSeq /\ [][NextSeq]_vars

\* One process records events one after the other, MaxLongCalls in all; the
\* k-th event carries k input tokens.  The run starts with no file, or with
\* the file as the first HistoryCap - 1 of these calls leave it.
LongLoc(k) ==
    [NoLoc EXCEPT !.cost = calculate_cost(LongEvent(k).model, k, 1),
                  !.timestamp = StartClock,
                  !.today = Date(StartClock),
                  !.current_month = MonthAt(StartClock)]

RECURSIVE SumRange(_, _, _)
\* F(lo) + ... + F(hi)
SumRange(F(_), lo, hi) ==
    IF lo > hi THEN 0
    ELSE IF lo = hi THEN F(lo)
    ELSE LET mid == (lo + hi) \div 2
         IN  SumRange(F, lo, mid) + SumRange(F, mid + 1, hi)

LongInput(k) == LongEvent(k).input_tokens
LongOutput(k) == LongEvent(k).output_tokens
LongCost(k) == LongLoc(k).cost

\* the store after the first n calls of the long run (n < HistoryCap), all
\* made at StartClock: what lines 96-159 accumulate
LongStore(n) ==
    IF n = 0 THEN EmptyStore
    ELSE "a@x.com" :>
        [daily |-> Date(StartClock) :>
            [tokens_input |-> SumRange(LongInput, 1, n),
             tokens_output |-> SumRange(LongOutput, 1, n),
             tokens_total |-> SumRange(LongInput, 1, n) + SumRange(LongOutput, 1, n),
             cost |-> SumRange(LongCost, 1, n)],
         monthly |-> MonthAt(StartClock) :>
            [tokens_total |-> SumRange(LongInput, 1, n) + SumRange(LongOutput, 1, n),
             cost |-> SumRange(LongCost, 1, n)],
         sessions |-> EmptyMap,
         history |-> [k \in 1..n |-> HistoryEntry(LongEvent(k), LongLoc(k))]]

LongLog(n) ==
    [k \in 1..n |->
        [kind |-> "event", user |-> LongEvent(k).user,
         entry |-> HistoryEntry(LongEvent(k), LongLoc(k)),
         today |-> LongLoc(k).today, month |-> LongLoc(k).current_month, swept |-> {}]]

LongStart == HistoryCap - 1

InitLong ==
    \/ InitWith({Absent})
    \/ /\ file = Stored(LongStore(LongStart))
       /\ lock = {}
       /\ now = StartClock
       /\ pc = [p \in Procs |-> "idle"]
       /\ call = [p \in Procs |-> NoCall]
       /\ loc = [p \in Procs |-> NoLoc]
       /\ ret = [p \in Procs |-> EmptyLedger]
       /\ ncalls = [p \in Procs |-> IF p = 1 THEN LongStart ELSE 0]
       /\ recorded = LongLog(LongStart)
       /\ seen = [p \in Procs |-> {}]
       /\ stable = file.data
       /\ start = Absent
       /\ out = [p \in Procs |-> NoOut]
       /\ persisted = file.data
       /\ api = [p \in Procs |-> NoApi]

NextLong ==
    \E p \in {1} :
        \/ TrackCall(p, {LongEvent(ncalls[p] + 1)}, ncalls[p] < MaxLongCalls)
        \/ TrackToday(p)
        \/ TrackMonth(p)
        \/ FileCheck(p)
        \/ FileCreate(p)
        \/ FileCreateClose(p)
        \/ Lock(p)
        \/ TrackLoad(p)
        \/ Truncate(p)
        \/ TrackDump(p)
        \/ Unlock(p)

SpecLong == InitLong /\ [][NextLong]_vars

\* One process makes MaxFaultCalls calls one after the other, on a file
\* that may be missing, empty, not JSON, JSON of another shape or a store,
\* with arguments that may be negative or of the wrong type, while open,
\* flock and the write-back may fail.
FaultEvents ==
    {TrackCallOf("a@x.com", Gpt4, 1, 2, "s1"),
     TrackCallOf("a@x.com", Gpt4, -1, 2, None),
     Mistyped(TrackCallOf("a@x.com", Gpt4, 0, 2, None))}

InitFaults == InitFrom({Absent, Empty, Garbage, Misshapen, Stored(SeedStore)}, Audited)

NextFaults ==
    \E p \in {1} :
        \/ TrackCall(p, FaultEvents, ncalls[p] < MaxFaultCalls)
        \/ TrackToday(p)
        \/ TrackMonth(p)
        \/ FileCheck(p)
        \/ FileCreate(p)
        \/ FileCreateClose(p)
        \/ OpenFails(p)
        \/ Lock(p)
        \/ LockFails(p)
        \/ TrackLoad(p)
        \/ Truncate(p)
        \/ TrackDump(p)
        \/ TrackDumpFails(p)
        \/ Unlock(p)
        \/ GetCall(p, {"a@x.com", "b@x.com"}, ncalls[p] < MaxFaultCalls)
        \/ GetLoad(p)

SpecFaults == InitFaults /\ [][NextFaults]_vars

\* One process records events with sessions for two users and sweeps the
\* sessions of either, MaxSeqCalls calls in all, while the clock runs.
SweepEvents ==
    {TrackCallOf("a@x.com", Gpt4, 1, 2, "s2"),
     TrackCallOf("b@x.com", Gpt4, 1, 2, "s1")}

SweepKeepDays == {0, 1}

InitSweep == InitFrom({Absent, Stored(SeedStore)}, Audited)

NextSweep ==
    \/ Tick
    \/ \E p \in {1} :
        \/ TrackCall(p, SweepEvents, ncalls[p] < MaxSeqCalls)
        \/ TrackToday(p)
        \/ TrackMonth(p)
        \/ FileCheck(p)
        \/ FileCreate(p)
        \/ FileCreateClose(p)
        \/ Lock(p)
        \/ TrackLoad(p)
        \/ Truncate(p)
        \/ TrackDump(p)
        \/ Unlock(p)
        \/ Close(p)
        \/ CleanupCall(p, Users, SweepKeepDays, ncalls[p] < MaxSeqCalls)
        \/ CleanupLoad(p)
        \/ CleanupDump(p)

SpecSweep == InitSweep /\ [][NextSweep]_vars

---------------------------------------------------------------------------
(* Helpers of the properties *)

LedgerOf(s, u) == IF u \in DOMAIN s THEN s[u] ELSE EmptyLedger
DailyOf(s, u, d) ==
    IF d \in DOMAIN LedgerOf(s, u).daily THEN LedgerOf(s, u).daily[d] ELSE ZeroDaily
MonthlyOf(s, u, m) ==
    IF m \in DOMAIN LedgerOf(s, u).monthly THEN LedgerOf(s, u).monthly[m] ELSE ZeroMonthly

AllDone(P) == \A p \in P : pc[p] = "done"

RECURSIVE SumTo(_, _)
\* F[1] + ... + F[n]
SumTo(F, n) == IF n = 0 THEN 0 ELSE F[n] + SumTo(F, n - 1)

InputOfCalls == SumTo([p \in Procs |-> call[p].input_tokens], NumProcs)
OutputOfCalls == SumTo([p \in Procs |-> call[p].output_tokens], NumProcs)

\* the positions of the log that hold events of user u
EventsOf(u) == {k \in 1..Len(recorded) : recorded[k].kind = "event" /\ recorded[k].user = u}

\* the sum of F(recorded[k]) over the positions k in K
SumLog(K, F(_)) ==
    SumTo([k \in 1..Len(recorded) |-> IF k \in K THEN F(recorded[k]) ELSE 0], Len(recorded))

Tokens(r) == r.entry.input_tokens + r.entry.output_tokens
InputTokens(r) == r.entry.input_tokens
OutputTokens(r) == r.entry.output_tokens
Priced(r) == calculate_cost(r.entry.model, r.entry.input_tokens, r.entry.output_tokens)

RECURSIVE EntriesFrom(_, _)
\* the history entries of user u's events from position k of the log on
EntriesFrom(u, k) ==
    IF k > Len(recorded) THEN <<>>
    ELSE IF k \in EventsOf(u) THEN <<recorded[k].entry>> \o EntriesFrom(u, k + 1)
    ELSE EntriesFrom(u, k + 1)

\* no clock read of the run fell on another day than the first
SameDay == Date(now) = Date(StartClock)
Today == Date(StartClock)


---------------------------------------------------------------------------
(* Properties *)

\* The prefilled start of the long run is the state the run from no file
\* reaches after LongStart calls.
LongStartReached ==
    (start.state = "absent" /\ Len(recorded) = LongStart /\ pc[1] = "done") =>
        /\ file = Stored(LongStore(LongStart))
        /\ recorded = LongLog(LongStart)
        /\ ncalls[1] = LongStart

\* C1: the file exists and holds a store, and every process calls
\* track_usage once for the same user on the same day: once all calls have
\* returned, daily[today] has grown by the sum of the events' input, output
\* and total tokens, the month's tokens_total by the sum of the totals, and
\* history by one entry per process.
C1_NoLostUpdate ==
    (AllDone(Procs) /\ SameDay /\ \A p \in Procs : call[p].user = call[1].user) =>
        /\ Parses(file)
        /\ LET u == call[1].user
               new == DailyOf(file.data, u, Today)
               old == DailyOf(start.data, u, Today)
           IN  /\ new.tokens_input = old.tokens_input + InputOfCalls
               /\ new.tokens_output = old.tokens_output + OutputOfCalls
               /\ new.tokens_total = old.tokens_total + InputOfCalls + OutputOfCalls
               /\ MonthlyOf(file.data, u, MonthOfDate(Today)).tokens_total =
                    MonthlyOf(start.data, u, MonthOfDate(Today)).tokens_total
                    + InputOfCalls + OutputOfCalls
               /\ Len(LedgerOf(file.data, u).history) =
                    Len(LedgerOf(start.data, u).history) + NumProcs

C1_Witness ==
    /\ AllDone(Procs) /\ SameDay /\ NumProcs >= 2
    /\ \A p \in Procs : call[p].user = "a@x.com"
    /\ start.data = SeedStore
    /\ Len(recorded) = NumProcs

\* C2: the file does not exist and several processes call track_usage: once
\* all calls have returned, the file holds a store in which every user's
\* history is exactly the events dumped for that user, each once.
C2_CreationKeepsEvents ==
    (/\ start.state = "absent"
     /\ \A p \in Workers : pc[p] = "done" /\ call[p].op = "track_usage"
     /\ \A k \in 1..Len(recorded) : recorded[k].kind = "event") =>
        /\ Parses(file)
        /\ \A u \in Users : LedgerOf(file.data, u).history = EntriesFrom(u, 1)

\* C3: at most one process is between flock(LOCK_EX) and flock(LOCK_UN), and
\* while a track_usage call is between its load and its save no other
\* process loads the file or changes it.
InCriticalSection(p) == pc[p] \in {"load", "truncate", "dump", "unlock"}
MutualExclusion ==
    \A p, q \in Procs : p # q => ~(InCriticalSection(p) /\ InCriticalSection(q))
BetweenLoadAndSave(p) ==
    call[p].op = "track_usage" /\ pc[p] \in {"truncate", "dump"}
NoForeignAccess ==
    \A p \in Procs :
        (BetweenLoadAndSave(p) /\ pc'[p] = pc[p]) =>
            /\ file' = file
            /\ \A q \in Procs : ~(pc[q] = "load" /\ pc'[q] # "load")
C3_Exclusive == [][MutualExclusion /\ NoForeignAccess]_vars

\* C4: what get_user_usage returns for a user is that user's ledger in a
\* store that existed at some moment of the call: the store as of the latest
\* write when the call began, or the store of a write made during the call.
C4_ReadsWholeStore ==
    \A p \in Procs :
        (call[p].op = "get_user_usage" /\ pc[p] \in {"unlock", "done"}) =>
            \E st \in seen[p] : ret[p] = LedgerOf(st, call[p].user)

\* C5: after sequential track_usage calls for one user, all on the same day
\* and without session id, from an empty store, daily[today].tokens_total is
\* the sum of the events' tokens and daily[today].cost the sum of their
\* calculate_cost; one gpt-4 event of 1000/500 tokens costs 0.06 dollars
\* (120000 units of 1/2,000,000 dollar).
SameDayNoSession ==
    /\ recorded # <<>>
    /\ \A k \in 1..Len(recorded) :
        /\ recorded[k].kind = "event"
        /\ recorded[k].user = recorded[1].user
        /\ recorded[k].today = recorded[1].today
        /\ recorded[k].entry.session_id = None
C5_DailyConservation ==
    (Parses(file) /\ SameDayNoSession) =>
        LET u == recorded[1].user
            b == DailyOf(file.data, u, recorded[1].today)
        IN  /\ b.tokens_total = SumLog(EventsOf(u), Tokens)
            /\ b.cost = SumLog(EventsOf(u), Priced)
            /\ (Len(recorded) = 1 /\ recorded[1].entry.model = Gpt4
                /\ recorded[1].entry.input_tokens = 1000
                /\ recorded[1].entry.output_tokens = 500) => b.cost = 120000

C5_Witness ==
    /\ Parses(file) /\ SameDayNoSession /\ pc[1] = "done"
    /\ Len(recorded) >= 2
    /\ DailyOf(file.data, "a@x.com", recorded[1].today).cost = 240000

\* C6: in every persisted store, for every user and month m,
\* monthly[m].tokens_total is the sum of the tokens of the user's events whose
\* own timestamp falls in month m.
InMonth(u, m) == {k \in EventsOf(u) : MonthAt(recorded[k].entry.timestamp) = m}
C6_MonthlyByTimestamp ==
    Parses(file) =>
        \A u \in Users : \A m \in 0..MonthAt(MaxClock) :
            MonthlyOf(file.data, u, m).tokens_total = SumLog(InMonth(u, m), Tokens)

\* C7: in every persisted store, for every user and date d,
\* daily[d].tokens_total = daily[d].tokens_input + daily[d].tokens_output.
C7_DailyTotal ==
    Parses(file) =>
        \A u \in DOMAIN file.data : \A d \in DOMAIN file.data[u].daily :
            file.data[u].daily[d].tokens_total =
                file.data[u].daily[d].tokens_input + file.data[u].daily[d].tokens_output

C7_Witness ==
    /\ Parses(file)
    /\ \E k \in 1..Len(recorded) : recorded[k].kind = "sweep"
    /\ \E k \in 1..Len(recorded) : recorded[k].kind = "event"
    /\ \E u \in DOMAIN file.data : \E d \in DOMAIN file.data[u].daily :
            file.data[u].daily[d].tokens_total >= 6

\* C8: after any completed track_usage write, every user's history holds at
\* most 1000 entries.
C8_HistoryBound ==
    Parses(file) =>
        \A u \in DOMAIN file.data : Len(file.data[u].history) <= HistoryCap

C8_Witness ==
    /\ Parses(file)
    /\ Len(recorded) > HistoryCap
    /\ Len(LedgerOf(file.data, "a@x.com").history) = HistoryCap

\* C9: after n sequential track_usage calls for one user from an empty
\* store, history is the last min(n, 1000) recorded events, oldest first;
\* after 1500 events it holds events 501..1500.
C9_Fifo ==
    Parses(file) =>
        LET h == LedgerOf(file.data, "a@x.com").history
            n == Len(recorded)
            kept == IF n < HistoryCap THEN n ELSE HistoryCap
        IN  /\ Len(h) = kept
            /\ \A i \in 1..kept :
                /\ h[i] = recorded[n - kept + i].entry
                /\ h[i].input_tokens = n - kept + i
            /\ n = 1500 => h[1].input_tokens = 501 /\ h[kept].input_tokens = 1500

C9_Witness ==
    /\ Parses(file)
    /\ Len(recorded) = HistoryCap + 2
    /\ Len(LedgerOf(file.data, "a@x.com").history) = HistoryCap
    /\ LedgerOf(file.data, "a@x.com").history[1].input_tokens = 3

\* C10: sessions[s] exists exactly when an event with session id s was
\* recorded since s was last swept; its counters and cost are the sums over
\* those events, started_at is the timestamp of the first of them and
\* last_updated the timestamp of the last; 500/100 then 200/50 tokens give
\* tokens_total 850.
LastSweep(u, s) ==
    LET K == {k \in 1..Len(recorded) :
                recorded[k].kind = "sweep" /\ recorded[k].user = u /\ s \in recorded[k].swept}
    IN  IF K = {} THEN 0 ELSE CHOOSE k \in K : \A j \in K : j <= k
Live(u, s) ==
    {k \in EventsOf(u) : recorded[k].entry.session_id = s /\ k > LastSweep(u, s)}
First(K) == CHOOSE k \in K : \A j \in K : k <= j
Last(K) == CHOOSE k \in K : \A j \in K : j <= k
C10_SessionSums ==
    Parses(file) =>
        \A u \in Users :
            LET sessions == LedgerOf(file.data, u).sessions IN
            /\ \A s \in DOMAIN sessions : Truthy(s)
            /\ \A s \in {"s1", "s2"} :
                /\ s \in DOMAIN sessions <=> Live(u, s) # {}
                /\ s \in DOMAIN sessions =>
                    /\ sessions[s].tokens_input = SumLog(Live(u, s), InputTokens)
                    /\ sessions[s].tokens_output = SumLog(Live(u, s), OutputTokens)
                    /\ sessions[s].tokens_total = SumLog(Live(u, s), Tokens)
                    /\ sessions[s].cost = SumLog(Live(u, s), Priced)
                    /\ sessions[s].started_at = recorded[First(Live(u, s))].entry.timestamp
                    /\ sessions[s].last_updated = recorded[Last(Live(u, s))].entry.timestamp
            /\ (/\ Len(recorded) = 2
                /\ \A k \in 1..2 : recorded[k].kind = "event" /\ recorded[k].user = u
                                   /\ recorded[k].entry.session_id = "s1"
                /\ recorded[1].entry.input_tokens = 500 /\ recorded[1].entry.output_tokens = 100
                /\ recorded[2].entry.input_tokens = 200 /\ recorded[2].entry.output_tokens = 50)
               => sessions["s1"].tokens_total = 850

C10_Witness ==
    /\ Parses(file)
    /\ "s1" \in DOMAIN LedgerOf(file.data, "a@x.com").sessions
    /\ LedgerOf(file.data, "a@x.com").sessions["s1"].tokens_total = 850
    /\ LedgerOf(file.data, "a@x.com").sessions["s1"].started_at
         < LedgerOf(file.data, "a@x.com").sessions["s1"].last_updated

TrackDone(p) == call[p].op = "track_usage" /\ pc[p] = "done"
GetDone(p) == call[p].op = "get_user_usage" /\ pc[p] = "done"
CleanupDone(p) == call[p].op = "cleanup_old_sessions" /\ pc[p] = "done"

\* C11: a track_usage call in which an exception arose (arguments of the
\* wrong type, open or flock failing, the write-back failing) lets no
\* exception reach the caller and leaves the store as it was when the call
\* began.
C11_FailedCallIsNoOp ==
    \A p \in Procs :
        (TrackDone(p) /\ out[p].error # "none") =>
            /\ ~out[p].raised
            /\ StoreOf(file) = StoreOf(out[p].before)

\* C12: the /track endpoint answers success exactly when track_usage has
\* written its event to the store.
C12_ReportsOutcome ==
    \A p \in Procs :
        TrackDone(p) => (track_usage_endpoint(p).success <=> out[p].saved)

\* C13: a track_usage call with a negative input_tokens or output_tokens
\* leaves the store as it was when the call began.
NegativeCount(c) == WellTyped(c) /\ (c.input_tokens < 0 \/ c.output_tokens < 0)
C13_NegativeRejected ==
    \A p \in Procs :
        (TrackDone(p) /\ NegativeCount(call[p])) =>
            StoreOf(file) = StoreOf(out[p].before)

\* C14: on a file that is empty, not JSON, or JSON of another shape than a
\* store, and with no failure of open, flock or the write-back,
\* get_user_usage returns the empty ledger and track_usage leaves a store
\* that holds its event and nothing else; no exception reaches the caller.
Unstructured(f) == f.state \in {"empty", "garbage", "json"}
NoIOError(p) == out[p].error \notin {"open", "flock", "dump"}
HoldsOnly(st, c) ==
    /\ DOMAIN st = {c.user}
    /\ Len(st[c.user].history) = 1
    /\ st[c.user].history[1].model = c.model
    /\ st[c.user].history[1].input_tokens = c.input_tokens
    /\ st[c.user].history[1].output_tokens = c.output_tokens
    /\ st[c.user].history[1].session_id = c.session_id
    /\ \A d \in DOMAIN st[c.user].daily :
        st[c.user].daily[d].tokens_total = c.input_tokens + c.output_tokens
C14_UnparsedIsEmpty ==
    \A p \in Procs :
        (pc[p] = "done" /\ out[p].audit /\ Unstructured(out[p].before) /\ NoIOError(p)) =>
            /\ ~out[p].raised
            /\ call[p].op = "get_user_usage" => ret[p] = EmptyLedger
            /\ (call[p].op = "track_usage" /\ WellTyped(call[p])) =>
                    Parses(file) /\ HoldsOnly(file.data, call[p])

\* C15: get_user_usage lets no exception reach the caller and returns the
\* user's ledger of the store in the file; it returns the empty ledger when
\* the file is absent or cannot be opened, locked or parsed, or holds no
\* ledger of the user.
C15_GetReturnsLedger ==
    \A p \in Procs :
        GetDone(p) =>
            /\ ~out[p].raised
            /\ ret[p] = IF out[p].error \in {"open", "flock"} THEN EmptyLedger
                        ELSE LedgerOf(StoreOf(file), call[p].user)

C15_Witness ==
    /\ GetDone(1)
    /\ out[1].error = "none"
    /\ start.state = "absent"
    /\ Len(recorded) = 1
    /\ call[1].user = "a@x.com"
    /\ ret[1] = file.data["a@x.com"]
    /\ Len(ret[1].history) = 1

\* C16: after cleanup_old_sessions(u, keep_days) has returned on a file
\* that held a store, the file holds a store in which every session of u
\* whose last_updated was earlier than (the clock when the call began minus
\* keep_days days) is absent and every other session of u is as it was.
Cutoff(began, keep_days) == began - keep_days * TicksPerDay
C17_SweepFrame ==
    \A p \in Procs :
        (CleanupDone(p) /\ out[p].audit) =>
            LET old == StoreOf(out[p].before)
                new == StoreOf(file)
                u == call[p].user
            IN  /\ DOMAIN new = DOMAIN old
                /\ u \in DOMAIN old =>
                    /\ new[u].daily = old[u].daily
                    /\ new[u].monthly = old[u].monthly
                    /\ new[u].history = old[u].history
                /\ \A v \in DOMAIN old \ {u} : new[v] = old[v]

C17_Witness ==
    /\ CleanupDone(1) /\ Parses(out[1].before) /\ Parses(file)
    /\ call[1].user = "a@x.com"
    /\ DOMAIN file.data = {"a@x.com", "b@x.com"}
    /\ DOMAIN file.data["b@x.com"].sessions = {"s1"}
    /\ file.data["a@x.com"].sessions # out[1].before.data["a@x.com"].sessions
    /\ Len(file.data["a@x.com"].history) >= 1

\* C18: a cleanup_old_sessions call that directly follows a call with the
\* same user and keep_days, with no session's last_updated lying between the
\* cutoffs of the two calls, leaves the file as the first call left it.
NoneCrossed(p) ==
    \A s \in DOMAIN LedgerOf(StoreOf(out[p].before), call[p].user).sessions :
        LET t == LedgerOf(StoreOf(out[p].before), call[p].user).sessions[s].last_updated
        IN  ~(/\ Cutoff(out[p].last_began, call[p].keep_days) <= t
              /\ t < Cutoff(out[p].began, call[p].keep_days))
C18_SweepIdempotent ==
    \A p \in Procs :
        (/\ CleanupDone(p) /\ out[p].audit
         /\ out[p].last = call[p]
         /\ NoneCrossed(p)) =>
            file = out[p].before

C18_Witness ==
    /\ CleanupDone(1) /\ out[1].last = call[1] /\ NoneCrossed(1)
    /\ Len(recorded) >= 2
    /\ recorded[Len(recorded)].kind = "sweep"
    /\ recorded[Len(recorded) - 1].kind = "sweep"
    /\ recorded[Len(recorded) - 1].swept # {}
    /\ Parses(file)

\* C19: from one store held by the file to the next, under any interleaving
\* of track_usage calls with non-negative counts, get_user_usage calls and
\* cleanup_old_sessions calls, no counter or cost of a daily or monthly
\* bucket of any user decreases (a bucket that is not there counts as
\* zero), and no counter or cost of a session decreases while the session
\* is in both stores.
NoLess(b, c) ==
    /\ b.tokens_input <= c.tokens_input
    /\ b.tokens_output <= c.tokens_output
    /\ b.tokens_total <= c.tokens_total
    /\ b.cost <= c.cost
NonDecreasing(old, new) ==
    \A u \in Users :
        /\ \A d \in 0..Date(MaxClock) : NoLess(DailyOf(old, u, d), DailyOf(new, u, d))
        /\ \A m \in 0..MonthAt(MaxClock) :
            /\ MonthlyOf(old, u, m).tokens_total <= MonthlyOf(new, u, m).tokens_total
            /\ MonthlyOf(old, u, m).cost <= MonthlyOf(new, u, m).cost
        /\ \A s \in DOMAIN LedgerOf(old, u).sessions \cap DOMAIN LedgerOf(new, u).sessions :
            NoLess(LedgerOf(old, u).sessions[s], LedgerOf(new, u).sessions[s])
C19_Monotonic == [][Parses(file') => NonDecreasing(persisted, file'.data)]_vars

\* C20: from one store held by the file to the next, under any interleaving
\* of track_usage, get_user_usage and cleanup_old_sessions calls, every user
\* that had a ledger still has one.
C20_LedgersKept == [][Parses(file') => DOMAIN persisted \subseteq DOMAIN file'.data]_vars

---------------------------------------------------------------------------
(* calculate_cost on its own *)

CostModels == {ClaudeSonnet45, ClaudeSonnet35, ClaudeOpus4, Gpt4, Gpt4Turbo, Gpt35Turbo,
               Gpt4TurboMixed, Llama3, TurboOnOpus, Sonnet35On45, Unnamed}
TokenCounts == 0..MaxTokens

\* one call of calculate_cost(model, input_tokens, output_tokens); the cost
\* it returns is kept in the caller's local `cost`
CostCall(p, models, counts) ==
    /\ pc[p] = "idle"
    /\ \E m \in models, i \in counts, o \in counts :
        /\ call' = [call EXCEPT ![p] = [NoCall EXCEPT !.op = "calculate_cost", !.model = m,
                                                       !.input_tokens = i,
                                                       !.output_tokens = o]]
        /\ loc' = [loc EXCEPT ![p] = [NoLoc EXCEPT !.cost = calculate_cost(m, i, o)]]
    /\ UNCHANGED <<file, lock, now, pc, ret, ncalls, recorded, seen, stable, start, out,
                   persisted, api>>

InitCost == InitWith({Absent})
NextCost == \E p \in {1} : CostCall(p, CostModels, TokenCounts)
SpecCost == InitCost /\ [][NextCost]_vars

CostReturned(p) == call[p].op = "calculate_cost"

\* the keys of the table contained in the lower-cased identifier, by position
KeysIn(model) ==
    {k \in 1..Len(MODEL_PRICING) : Contains(Lower(model), MODEL_PRICING[k].key)}

PriceAt(pricing, i, o) == i * pricing.input + o * pricing.output

\* C23: an identifier that contains, case-insensitively, two or more keys of
\* the pricing table is priced with the one of them declared first in the
\* table, wherever the keys stand in the identifier.
C23_FirstDeclaredKey ==
    \A p \in Procs :
        CostReturned(p) /\ Cardinality(KeysIn(call[p].model)) >= 2 =>
            \A k \in KeysIn(call[p].model) :
                (\A j \in KeysIn(call[p].model) : k <= j) =>
                    loc[p].cost = PriceAt(MODEL_PRICING[k], call[p].input_tokens,
                                          call[p].output_tokens)
C23_Witness ==
    \E p \in Procs :
        /\ CostReturned(p)
        /\ call[p].model = TurboOnOpus
        /\ KeysIn(call[p].model) = {3, 6}
        /\ call[p].input_tokens = 1 /\ call[p].output_tokens = 2
        /\ loc[p].cost = 330

C25_Linear ==
    \A p \in Procs :
        CostReturned(p) =>
            LET m == call[p].model
                i == call[p].input_tokens
                o == call[p].output_tokens
            IN  /\ (i = 0 /\ o = 0 => loc[p].cost = 0)
                /\ \A i1 \in 0..i :
                       loc[p].cost = calculate_cost(m, i1, o) + calculate_cost(m, i - i1, 0)
                /\ \A o1 \in 0..o :
                       loc[p].cost = calculate_cost(m, i, o1) + calculate_cost(m, 0, o - o1)
C25_Witness ==
    \E p \in Procs :
        /\ CostReturned(p)
        /\ call[p].model = Gpt4
        /\ call[p].input_tokens = 3 /\ call[p].output_tokens = 2
        /\ loc[p].cost = 420

\* C26: in every store the file holds, under any interleaving of concurrent
\* track_usage calls, the timestamps of each user's history never decrease
\* from one entry to the next.
OldestFirst(h) == \A i \in 1..(Len(h) - 1) : h[i].timestamp <= h[i + 1].timestamp
C26_HistoryOldestFirst ==
    Parses(file) => \A u \in DOMAIN file.data : OldestFirst(file.data[u].history)

\* C29: when track_usage or cleanup_old_sessions, having dumped a store,
\* is about to release the lock, the file holds that store whole and no
\* part of it is still in the buffer of the writing process.
Dumped(p) == out[p].saved \/ loc[p].pending
C29_WrittenBeforeUnlock ==
    \A p \in Procs :
        pc[p] = "unlock" /\ Dumped(p) =>
            ~loc[p].pending /\ file = Stored(loc[p].data)

\* the part of C29 that is about track_usage alone
C29_TrackWrittenBeforeUnlock ==
    \A p \in Procs :
        pc[p] = "unlock" /\ Dumped(p) /\ call[p].op = "track_usage" =>
            ~loc[p].pending /\ file = Stored(loc[p].data)

---------------------------------------------------------------------------
(* Concurrent calls with failures inside the locked section *)

ExitEvents == {TrackCallOf("a@x.com", Gpt4, 1, 2, "s1")}

InitExits == InitWith({Absent, Garbage, Misshapen, Stored(SeedStore)})

NextExits ==
    \E p \in Procs :
        \/ TrackCall(p, ExitEvents, CallsMade < MaxExitCalls)
        \/ TrackToday(p)
        \/ TrackMonth(p)
        \/ GetCall(p, {"a@x.com"}, CallsMade < MaxExitCalls)
        \/ CleanupCall(p, {"a@x.com"}, {0}, CallsMade < MaxExitCalls)
        \/ FileCheck(p)
        \/ FileCreate(p)
        \/ FileCreateClose(p)
        \/ OpenFails(p)
        \/ Lock(p)
        \/ LockFails(p)
        \/ TrackLoad(p)
        \/ GetLoad(p)
        \/ CleanupLoad(p)
        \/ Truncate(p)
        \/ TrackDump(p)
        \/ TrackDumpFails(p)
        \/ CleanupDump(p)
        \/ Unlock(p)
        \/ Close(p)

SpecExits == InitExits /\ [][NextExits]_vars

\* C30: a process that is not between its flock(LOCK_EX) and its
\* flock(LOCK_UN) does not hold the lock: after a track_usage,
\* get_user_usage or cleanup_old_sessions call has finished, normally or by
\* an exception raised inside the locked section, the caller has released
\* the lock, so that the lock is free for the next flock(LOCK_EX).
InSection(p) == pc[p] \in {"load", "truncate", "dump", "unlock"}
C30_LockReleased == \A p \in Procs : ~InSection(p) => p \notin lock
C30_Witness ==
    \E p \in Procs, q \in Procs :
        /\ p # q
        /\ pc[p] = "done"
        /\ out[p].error \in {"update", "dump", "load"}
        /\ lock = {q}

---------------------------------------------------------------------------
(* The helpers and endpoints of routers/usage.py *)

\* the four counters that DailyUsageStats and SessionUsageStats carry
Counters(b) == [tokens_input |-> b.tokens_input, tokens_output |-> b.tokens_output,
                tokens_total |-> b.tokens_total, cost |-> b.cost]

\* dict.get with its default: the bucket, or zeros
BucketAt(buckets, k, zero) == IF k \in DOMAIN buckets THEN buckets[k] ELSE zero

\* line 110: x[1].get('last_updated', x[1].get('started_at', ''))
LastUpdated(session) ==
    IF session.last_updated = Missing THEN session.started_at ELSE session.last_updated

LeastRecent(sessions) ==
    {sid \in DOMAIN sessions :
        \A t \in DOMAIN sessions : LastUpdated(sessions[sid]) <= LastUpdated(sessions[t])}

\* lines 108-112: max over the sessions by that key.  Among sessions with
\* the same key max takes the first in the order of the dict, which is the
\* order of the file; the store keeps no order, so any of them may be it.
MostRecent(sessions) ==
    {sid \in DOMAIN sessions :
        \A t \in DOMAIN sessions : LastUpdated(sessions[t]) <= LastUpdated(sessions[sid])}

\* lines 94-127: the results get_session_stats can return from the ledger
\* that get_user_usage gave it
get_session_stats(user_data, session_id) ==
    LET sessions == user_data.sessions
    IN  IF Truthy(session_id) /\ session_id \in DOMAIN sessions
        THEN {Counters(sessions[session_id])}
        ELSE IF DOMAIN sessions # {}
             THEN {Counters(sessions[sid]) : sid \in MostRecent(sessions)}
             ELSE {ZeroDaily}

\* an endpoint or helper is entered
Enter(p, op, phase, u) ==
    [NoApi EXCEPT !.op = op, !.phase = phase, !.base = ncalls[p], !.user = u,
                  !.before = file, !.began = now]

\* get_session_stats(user_id, session_id) is called; line 93 follows as a
\* call of get_user_usage
SessionStatsCall(p, users, session_ids, budget) ==
    /\ Idle(p) /\ Free(p)
    /\ budget
    /\ \E u \in users, sid \in session_ids :
        api' = [api EXCEPT ![p] = [Enter(p, "get_session_stats", "session", u)
                                      EXCEPT !.session_id = sid]]
    /\ UNCHANGED <<file, lock, now, pc, call, loc, ret, ncalls, recorded, seen, stable,
                   start, out, persisted>>

\* lines 94-127
SessionStatsReturn(p) ==
    /\ api[p].op = "get_session_stats"
    /\ api[p].phase = "session"
    /\ Fetched(p)
    /\ \E r \in get_session_stats(ret[p], api[p].session_id) :
        api' = [api EXCEPT ![p].session = r, ![p].phase = "replied", ![p].status = "200"]
    /\ UNCHANGED <<file, lock, now, pc, call, loc, ret, ncalls, recorded, seen, stable,
                   start, out, persisted>>

\* get_daily_history(days) and get_monthly_history(months) are called;
\* lines 190 and 240 follow as a call of get_user_usage
HistoryCall(p, op, users, counts, budget) ==
    /\ Idle(p) /\ Free(p)
    /\ budget
    /\ \E u \in users, n \in counts :
        api' = [api EXCEPT ![p] = [Enter(p, op, "fetch", u)
                                      EXCEPT !.n = n, !.offset = n - 1]]
    /\ UNCHANGED <<file, lock, now, pc, call, loc, ret, ncalls, recorded, seen, stable,
                   start, out, persisted>>

\* lines 195-207: one iteration of the loop over day_offset; it reads the
\* clock (line 196).  The last iteration is followed by the return.
DailyHistoryStep(p) ==
    /\ api[p].op = "get_daily_history"
    /\ \/ api[p].phase = "fetch" /\ Fetched(p)
       \/ api[p].phase = "loop"
    /\ LET target_date == Date(now) - api[p].offset
           day_stats == BucketAt(ret[p].daily, target_date, ZeroDaily)
           entry == [date |-> target_date, bucket |-> Counters(day_stats)]
       IN  api' = [api EXCEPT ![p].history = Append(@, entry),
                              ![p].offset = @ - 1,
                              ![p].phase = IF api[p].offset = 0 THEN "replied" ELSE "loop",
                              ![p].status = IF api[p].offset = 0 THEN "200" ELSE ""]
    /\ UNCHANGED <<file, lock, now, pc, call, loc, ret, ncalls, recorded, seen, stable,
                   start, out, persisted>>

\* lines 245-256: one iteration of the loop over month_offset; it reads the
\* clock (line 247).
MonthlyHistoryStep(p) ==
    /\ api[p].op = "get_monthly_history"
    /\ \/ api[p].phase = "fetch" /\ Fetched(p)
       \/ api[p].phase = "loop"
    /\ LET target_month == MonthAt(now) - api[p].offset
           month_stats == BucketAt(ret[p].monthly, target_month, ZeroMonthly)
           entry == [month |-> target_month, bucket |-> month_stats]
       IN  api' = [api EXCEPT ![p].history = Append(@, entry),
                              ![p].offset = @ - 1,
                              ![p].phase = IF api[p].offset = 0 THEN "replied" ELSE "loop",
                              ![p].status = IF api[p].offset = 0 THEN "200" ELSE ""]
    /\ UNCHANGED <<file, lock, now, pc, call, loc, ret, ncalls, recorded, seen, stable,
                   start, out, persisted>>

\* reset_daily_usage, lines 319-364: line 332 chooses the date; line 334
\* calls safe_read_json(DAILY_COST_FILE, {}), two names the module neither
\* defines nor imports: NameError, caught at line 359 and answered with
\* status 500.  Lines 336-357 are never reached, and nothing is written.
ResetDaily(p, users, dates, budget) ==
    /\ Idle(p) /\ Free(p)
    /\ budget
    /\ \E u \in users, given \in BOOLEAN, d \in dates :
        LET reset_date == IF given THEN d ELSE Date(now)
        IN  api' = [api EXCEPT ![p] = [Enter(p, "reset_daily_usage", "replied", u)
                                          EXCEPT !.today = reset_date,
                                                 !.status = "500",
                                                 !.success = FALSE]]
    /\ UNCHANGED <<file, lock, now, pc, call, loc, ret, ncalls, recorded, seen, stable,
                   start, out, persisted>>

\* a@x.com's sessions as a writer that kept no last_updated left them:
\* s0, the later one, has only started_at
LegacyStore ==
    [SeedStore EXCEPT !["a@x.com"].sessions =
        Put([@ EXCEPT !["s1"].started_at = StartClock - 1,
                      !["s1"].last_updated = StartClock - 1],
            "s0",
            [tokens_input |-> 4, tokens_output |-> 0, tokens_total |-> 4, cost |-> 240,
             started_at |-> StartClock, last_updated |-> Missing])]

ApiEvents ==
    {TrackCallOf("a@x.com", Gpt4, 2, 1, "s2"),
     TrackCallOf("a@x.com", Gpt35Turbo, 1, 1, "s1")}
SessionIds == {None, "", "s1", "zz"}

InitApi == InitFrom({Absent, Stored(SeedStore), Stored(LegacyStore)}, Audited)

NextApi ==
    \/ Tick
    \/ \E p \in {1} :
        \/ TrackCall(p, ApiEvents, Free(p) /\ ncalls[p] < MaxApiCalls)
        \/ TrackToday(p)
        \/ TrackMonth(p)
        \/ FileCheck(p)
        \/ FileCreate(p)
        \/ FileCreateClose(p)
        \/ Lock(p)
        \/ TrackLoad(p)
        \/ Truncate(p)
        \/ TrackDump(p)
        \/ Unlock(p)
        \/ GetCall(p, {api[p].user}, Fetching(p))
        \/ GetLoad(p)
        \/ SessionStatsCall(p, {"a@x.com", "b@x.com"}, SessionIds, ncalls[p] < MaxApiCalls)
        \/ SessionStatsReturn(p)
        \/ HistoryCall(p, "get_daily_history", {"a@x.com"}, 1..MaxDays,
                       ncalls[p] < MaxApiCalls)
        \/ DailyHistoryStep(p)
        \/ HistoryCall(p, "get_monthly_history", {"a@x.com"}, 1..MaxDays,
                       ncalls[p] < MaxApiCalls)
        \/ MonthlyHistoryStep(p)
        \/ ResetDaily(p, {"a@x.com"}, 0..Date(MaxClock), ncalls[p] < MaxApiCalls)

SpecApi == InitApi /\ [][NextApi]_vars

Replied(p, op) == api[p].op = op /\ api[p].phase = "replied"

\* the ledger of the endpoint's user in the file the endpoint found
LedgerBefore(p) == LedgerOf(StoreOf(api[p].before), api[p].user)

\* C21: reset_daily_usage(user, date), for a date that has a daily bucket
\* in the store, reports success and leaves the user's ledger without that
\* bucket and otherwise as it was, and every other ledger as it was; for a
\* date without a bucket it reports no success and leaves the file as it
\* was.
C21_ResetDeletesBucket ==
    \A p \in Procs :
        Replied(p, "reset_daily_usage") /\ ncalls[p] = api[p].base =>
            LET u == api[p].user
                d == api[p].today
                old == StoreOf(api[p].before)
            IN  IF d \in DOMAIN LedgerBefore(p).daily
                THEN /\ api[p].success
                     /\ Parses(file)
                     /\ file.data = [old EXCEPT ![u].daily = Drop(@, {d})]
                ELSE /\ ~api[p].success
                     /\ file = api[p].before

\* C27: get_session_stats returns the counters of the session that
\* session_id names when the user has it; otherwise, when the user has
\* sessions, the counters of one whose last_updated (started_at where there
\* is no last_updated) is the greatest; otherwise zeros.
C27_SessionStats ==
    \A p \in Procs :
        Replied(p, "get_session_stats") =>
            LET sessions == LedgerBefore(p).sessions
                sid == api[p].session_id
            IN  IF sid \in DOMAIN sessions
                THEN api[p].session = Counters(sessions[sid])
                ELSE IF DOMAIN sessions # {}
                     THEN \E s \in DOMAIN sessions :
                            /\ api[p].session = Counters(sessions[s])
                            /\ \A t \in DOMAIN sessions :
                                  LastUpdated(sessions[t]) <= LastUpdated(sessions[s])
                     ELSE api[p].session = ZeroDaily
C27_Witness ==
    \E p \in Procs :
        /\ Replied(p, "get_session_stats")
        /\ api[p].session_id = "zz"
        /\ DOMAIN LedgerBefore(p).sessions = {"s1", "s2"}
        /\ LedgerBefore(p).sessions["s1"].last_updated
              < LedgerBefore(p).sessions["s2"].last_updated
        /\ api[p].session = Counters(LedgerBefore(p).sessions["s2"])
        /\ api[p].session # Counters(LedgerBefore(p).sessions["s1"])

\* C28: get_daily_history(days = N) and get_monthly_history(months = N),
\* N >= 1, return N entries: for some `today` (current month) that the
\* clock showed during the call, the i-th entry is for the day (month)
\* N - i before it and carries the stored bucket of that day (month), or
\* zeros.
HistoryWindow(p, t) ==
    LET n == api[p].n
        h == api[p].history
    IN  IF api[p].op = "get_daily_history"
        THEN \A i \in 1..n :
                /\ h[i].date = Date(t) - (n - i)
                /\ h[i].bucket = Counters(BucketAt(LedgerBefore(p).daily, h[i].date,
                                                    ZeroDaily))
        ELSE \A i \in 1..n :
                /\ h[i].month = MonthAt(t) - (n - i)
                /\ h[i].bucket = BucketAt(LedgerBefore(p).monthly, h[i].month,
                                           ZeroMonthly)
C28_HistoryWindow ==
    \A p \in Procs :
        Replied(p, "get_daily_history") \/ Replied(p, "get_monthly_history") =>
            /\ Len(api[p].history) = api[p].n
            /\ \E t \in api[p].began..now : HistoryWindow(p, t)

\* the same for the calls during which the clock stood still
C28_HistoryWindowOneClock ==
    \A p \in Procs :
        /\ Replied(p, "get_daily_history") \/ Replied(p, "get_monthly_history")
        /\ api[p].began = now
        => /\ Len(api[p].history) = api[p].n
           /\ HistoryWindow(p, now)

---------------------------------------------------------------------------
(* get_usage_stats, routers/usage.py lines 134-168 *)

\* lines 148-151 and 56: the endpoint calls get_daily_stats, which reads
\* the date; line 57 follows as a call of get_user_usage
StatsCall(p, users, budget) ==
    /\ Idle(p) /\ Free(p)
    /\ budget
    /\ \E u \in users :
        api' = [api EXCEPT ![p] = [Enter(p, "get_usage_stats", "daily", u)
                                      EXCEPT !.today = Date(now)]]
    /\ seen' = [seen EXCEPT ![p] = {stable}]
    /\ UNCHANGED <<file, lock, now, pc, call, loc, ret, ncalls, recorded, stable,
                   start, out, persisted>>

\* lines 59-67, then 152 and 72: get_daily_stats projects today's bucket
\* out of the ledger it loaded; get_monthly_stats is called and reads the
\* month; line 73 follows as a second call of get_user_usage.  The budget
\* fields of MonthlyUsageStats are left out.
StatsDaily(p) ==
    /\ api[p].op = "get_usage_stats"
    /\ api[p].phase = "daily"
    /\ Fetched(p)
    /\ api' = [api EXCEPT ![p].daily = Counters(BucketAt(ret[p].daily, api[p].today,
                                                         ZeroDaily)),
                          ![p].month = MonthAt(now),
                          ![p].phase = "monthly",
                          ![p].base = ncalls[p]]
    /\ UNCHANGED <<file, lock, now, pc, call, loc, ret, ncalls, recorded, seen, stable,
                   start, out, persisted>>

\* lines 75-88, then 153: get_monthly_stats projects the month's bucket
\* out of the ledger it loaded; get_session_stats(user_id) is called; line
\* 93 follows as a third call of get_user_usage.
StatsMonthly(p) ==
    /\ api[p].op = "get_usage_stats"
    /\ api[p].phase = "monthly"
    /\ Fetched(p)
    /\ api' = [api EXCEPT ![p].monthly = BucketAt(ret[p].monthly, api[p].month,
                                                  ZeroMonthly),
                          ![p].phase = "session",
                          ![p].base = ncalls[p]]
    /\ UNCHANGED <<file, lock, now, pc, call, loc, ret, ncalls, recorded, seen, stable,
                   start, out, persisted>>

\* lines 94-127 with session_id None, then 155-161: the response
StatsSession(p) ==
    /\ api[p].op = "get_usage_stats"
    /\ api[p].phase = "session"
    /\ Fetched(p)
    /\ \E r \in get_session_stats(ret[p], None) :
        api' = [api EXCEPT ![p].session = r, ![p].phase = "replied", ![p].status = "200"]
    /\ UNCHANGED <<file, lock, now, pc, call, loc, ret, ncalls, recorded, seen, stable,
                   start, out, persisted>>

\* one request for the statistics while other processes record usage
StatsEvents ==
    {TrackCallOf("a@x.com", Gpt4, 1, 2, None),
     TrackCallOf("a@x.com", Gpt4, 2, 1, "s2")}

\* the processes that have called track_usage
Trackers == {q \in Procs : api[q].op = "none" /\ ncalls[q] > 0}

InitStats == InitWith({Stored(EmptyStore), Stored(SeedStore)})

NextStats ==
    \E p \in Procs :
        \/ StatsCall(p, {"a@x.com"}, \A q \in Procs : api[q].op = "none" /\ ncalls[q] = 0)
        \/ GetCall(p, {api[p].user}, Fetching(p))
        \/ GetLoad(p)
        \/ StatsDaily(p)
        \/ StatsMonthly(p)
        \/ StatsSession(p)
        \/ TrackCall(p, StatsEvents,
                     api[p].op = "none" /\ ncalls[p] = 0
                     /\ Cardinality(Trackers) < MaxStatsTracks
                     /\ \E q \in Procs : api[q].op # "none")
        \/ TrackToday(p)
        \/ TrackMonth(p)
        \/ FileCheck(p)
        \/ Lock(p)
        \/ TrackLoad(p)
        \/ Truncate(p)
        \/ TrackDump(p)
        \/ Unlock(p)

SpecStats == InitStats /\ [][NextStats]_vars

\* C22: the daily, monthly and session parts of a get_usage_stats response
\* are what one store, among the stores the file held while the endpoint
\* ran, gives for the user: that store's bucket of the day, its bucket of
\* the month and its most recent session.
SnapshotOf(p, S) ==
    LET u == api[p].user
    IN  /\ api[p].daily = Counters(DailyOf(S, u, api[p].today))
        /\ api[p].monthly = MonthlyOf(S, u, api[p].month)
        /\ api[p].session \in get_session_stats(LedgerOf(S, u), None)
C22_OneSnapshot ==
    \A p \in Procs :
        Replied(p, "get_usage_stats") => \E S \in seen[p] : SnapshotOf(p, S)

\* the same for the requests during which the file held one store only
C22_OneSnapshotWhenAlone ==
    \A p \in Procs :
        Replied(p, "get_usage_stats") /\ Cardinality(seen[p]) = 1 =>
            \E S \in seen[p] : SnapshotOf(p, S)

\* C37: every entry of the pricing table is effective: an identifier that
\* is, letter case apart, a key of MODEL_PRICING is priced with the input
\* and output prices of that key.
C37_EveryKeyEffective ==
    \A p \in Procs :
        CostReturned(p) =>
            \A k \in 1..Len(MODEL_PRICING) :
                Lower(call[p].model) = MODEL_PRICING[k].key =>
                    loc[p].cost = PriceAt(MODEL_PRICING[k], call[p].input_tokens,
                                          call[p].output_tokens)

\* the same for the keys that contain no key declared before them
C37_UnshadowedKeyEffective ==
    \A p \in Procs :
        CostReturned(p) =>
            \A k \in 1..Len(MODEL_PRICING) :
                /\ Lower(call[p].model) = MODEL_PRICING[k].key
                /\ \A j \in 1..(k - 1) : ~Contains(MODEL_PRICING[k].key, MODEL_PRICING[j].key)
                => loc[p].cost = PriceAt(MODEL_PRICING[k], call[p].input_tokens,
                                         call[p].output_tokens)

\* C36: in every store the file holds, reached from no store by track_usage
\* calls during which the clock may advance at any point, for every user
\* and month m, monthly[m].tokens_total is the sum of daily[d].tokens_total
\* over the dates d of month m.
RECURSIVE SumDaily(_, _)
SumDaily(daily, dates) ==
    IF dates = {} THEN 0
    ELSE LET d == CHOOSE x \in dates : TRUE
         IN  daily[d].tokens_total + SumDaily(daily, dates \ {d})
DatesOfMonth(daily, m) == {d \in DOMAIN daily : MonthOfDate(d) = m}
C36_MonthlyIsSumOfDaily ==
    Parses(file) =>
        \A u \in DOMAIN file.data :
            \A m \in 0..MonthAt(MaxClock) :
                MonthlyOf(file.data, u, m).tokens_total
                    = SumDaily(file.data[u].daily, DatesOfMonth(file.data[u].daily, m))

\* the same for the stores whose events each read the date and the month
\* on the same day
C36_MonthlyIsSumOfDailyOneDay ==
    Parses(file) /\ (\A k \in 1..Len(recorded) :
                        recorded[k].kind = "event" =>
                            MonthOfDate(recorded[k].today) = recorded[k].month) =>
        \A u \in DOMAIN file.data :
            \A m \in 0..MonthAt(MaxClock) :
                MonthlyOf(file.data, u, m).tokens_total
                    = SumDaily(file.data[u].daily, DatesOfMonth(file.data[u].daily, m))

\* C35: under any interleaving of concurrent track_usage calls that carry
\* the same session id, every session of every store the file holds has
\* last_updated >= started_at, and from one store held by the file to the
\* next no session's last_updated decreases.
SessionsOrdered(store) ==
    \A u \in DOMAIN store : \A sid \in DOMAIN store[u].sessions :
        store[u].sessions[sid].started_at <= store[u].sessions[sid].last_updated
SessionsAdvance(old, new) ==
    \A u \in DOMAIN old \cap DOMAIN new :
        \A sid \in DOMAIN old[u].sessions \cap DOMAIN new[u].sessions :
            old[u].sessions[sid].last_updated <= new[u].sessions[sid].last_updated
C35_SessionClock ==
    /\ [](Parses(file) => SessionsOrdered(file.data))
    /\ [][Parses(file') => SessionsAdvance(persisted, file'.data)]_vars

\* the two halves of C35 apart
C35_SessionsOrdered == Parses(file) => SessionsOrdered(file.data)
C35_SessionsAdvance == [][Parses(file') => SessionsAdvance(persisted, file'.data)]_vars

---------------------------------------------------------------------------
(* Concurrent calls that run on: every process is scheduled again and
   again, and flock(LOCK_EX) grants the lock fairly to the callers that wait
   for it *)

LiveEvents == {TrackCallOf("a@x.com", Gpt4, 1, 2, "s1")}

InitLive == InitWith({Absent, Misshapen, Stored(SeedStore)})

\* a call begins
StartOf(p) ==
    \/ TrackCall(p, LiveEvents, CallsMade < MaxLiveCalls)
    \/ GetCall(p, {"a@x.com"}, CallsMade < MaxLiveCalls)
    \/ CleanupCall(p, {"a@x.com"}, {0}, CallsMade < MaxLiveCalls)

\* the statements of a call other than flock(LOCK_EX)
RunOf(p) ==
    \/ TrackToday(p)
    \/ TrackMonth(p)
    \/ FileCheck(p)
    \/ FileCreate(p)
    \/ FileCreateClose(p)
    \/ TrackLoad(p)
    \/ GetLoad(p)
    \/ CleanupLoad(p)
    \/ Truncate(p)
    \/ TrackDump(p)
    \/ CleanupDump(p)
    \/ Unlock(p)
    \/ Close(p)

NextLive == \E p \in Procs : StartOf(p) \/ RunOf(p) \/ Lock(p)

SpecLive ==
    /\ InitLive
    /\ [][NextLive]_vars
    /\ \A p \in Procs : WF_vars(RunOf(p)) /\ SF_vars(Lock(p))

\* C31: with finitely many concurrent track_usage, get_user_usage and
\* cleanup_old_sessions calls and a lock granted fairly, a call in progress
\* can always take its next step unless it is at flock(LOCK_EX) and another
\* process holds the lock, and every call that has begun returns.
Blocked(p) == InCall(p) /\ ~ENABLED (RunOf(p) \/ Lock(p))
C31_OnlyLockBlocks ==
    \A p \in Procs : Blocked(p) => pc[p] = "lock" /\ lock # {} /\ p \notin lock
C31_CallsReturn ==
    /\ []C31_OnlyLockBlocks
    /\ \A p \in Procs : InCall(p) ~> pc[p] = "done"
C31_Witness ==
    \E p \in Procs, q \in Procs :
        /\ Blocked(p)
        /\ pc[p] = "lock"
        /\ lock = {q}
        /\ pc[q] = "unlock"
        /\ call[q].op = "cleanup_old_sessions"

---------------------------------------------------------------------------
(* The read operations, one call after the other *)

ReadEvents == {TrackCallOf("a@x.com", Gpt4, 1, 2, "s1")}

InitReads == InitFrom({Absent, Empty, Garbage, Misshapen, Stored(SeedStore)}, Audited)

NextReads ==
    \E p \in {1} :
        \/ TrackCall(p, ReadEvents, Free(p) /\ ncalls[p] < MaxReadCalls)
        \/ TrackToday(p)
        \/ TrackMonth(p)
        \/ FileCheck(p)
        \/ FileCreate(p)
        \/ FileCreateClose(p)
        \/ Lock(p)
        \/ TrackLoad(p)
        \/ Truncate(p)
        \/ TrackDump(p)
        \/ Unlock(p)
        \/ GetCall(p, Users, Free(p) /\ ncalls[p] < MaxReadCalls)
        \/ GetCall(p, {api[p].user}, Fetching(p))
        \/ GetLoad(p)
        \/ StatsCall(p, Users, ncalls[p] < MaxReadCalls)
        \/ StatsDaily(p)
        \/ StatsMonthly(p)
        \/ StatsSession(p)
        \/ SessionStatsCall(p, Users, {None, "s1"}, ncalls[p] < MaxReadCalls)
        \/ SessionStatsReturn(p)

SpecReads == InitReads /\ [][NextReads]_vars

\* C34: a get_user_usage call leaves the file as it found it (an absent
\* file stays absent), and so do get_daily_stats, get_monthly_stats and
\* get_session_stats, which get_usage_stats calls one after the other.
HelperRead(p) ==
    /\ api[p].op \in {"get_usage_stats", "get_session_stats"}
    /\ Fetched(p)
C34_ReadsLeaveFile ==
    \A p \in Procs :
        GetDone(p) =>
            /\ file = out[p].before
            /\ HelperRead(p) => file = api[p].before
C34_Witness ==
    \E p \in Procs :
        /\ Replied(p, "get_usage_stats")
        /\ GetDone(p) /\ HelperRead(p)
        /\ api[p].before = Absent
        /\ file = Absent

---------------------------------------------------------------------------
(* What a track_usage call leaves alone *)

\* One process records events for two users, with a session, without one
\* and with the empty session id, MaxFrameCalls calls in all, while the
\* clock runs.
FrameEvents ==
    {TrackCallOf("a@x.com", Gpt4, 1, 2, None),
     TrackCallOf("a@x.com", Gpt4, 1, 2, ""),
     TrackCallOf("a@x.com", Gpt4, 1, 2, "s2"),
     TrackCallOf("b@x.com", Gpt4, 1, 2, "s1")}

InitFrame == InitFrom({Absent, Stored(EmptyStore), Stored(SeedStore)}, Audited)

NextFrame ==
    \/ Tick
    \/ \E p \in {1} :
        \/ TrackCall(p, FrameEvents, ncalls[p] < MaxFrameCalls)
        \/ TrackToday(p)
        \/ TrackMonth(p)
        \/ FileCheck(p)
        \/ FileCreate(p)
        \/ FileCreateClose(p)
        \/ Lock(p)
        \/ TrackLoad(p)
        \/ Truncate(p)
        \/ TrackDump(p)
        \/ Unlock(p)

SpecFrame == InitFrame /\ [][NextFrame]_vars

\* f and g are equal outside the keys ks
SameBut(f, g, ks) ==
    /\ (DOMAIN f) \ ks = (DOMAIN g) \ ks
    /\ \A k \in (DOMAIN f) \ ks : f[k] = g[k]

\* track_usage has written its store over a file that held a valid store
TrackSaved(p) ==
    /\ call[p].op = "track_usage"
    /\ pc[p] = "unlock"
    /\ out[p].saved
    /\ Parses(out[p].before)

\* C33: a successful track_usage call for user u on a valid store leaves
\* the ledger of every other user as it was, and in the ledger of u it
\* changes nothing but the daily bucket of today, the monthly bucket of the
\* current month, the bucket of the given session (no session bucket when
\* the session id is missing or empty) and the history.
C33_TrackFrame ==
    \A p \in Procs :
        TrackSaved(p) =>
            LET old == out[p].before.data
                u == call[p].user
                was == LedgerOf(old, u)
                is == LedgerOf(file.data, u)
            IN  /\ Parses(file)
                /\ SameBut(old, file.data, {u})
                /\ SameBut(was.daily, is.daily, {loc[p].today})
                /\ SameBut(was.monthly, is.monthly, {loc[p].current_month})
                /\ SameBut(was.sessions, is.sessions,
                           IF Truthy(call[p].session_id) THEN {call[p].session_id} ELSE {})

\* a call without a session id is written for a user who has a session and
\* a bucket of another day, next to the ledger of another user
C33_Witness ==
    \E p \in Procs :
        /\ TrackSaved(p)
        /\ ~Truthy(call[p].session_id)
        /\ Parses(file)
        /\ \E v \in DOMAIN out[p].before.data : v # call[p].user
        /\ LedgerOf(out[p].before.data, call[p].user).sessions # EmptyMap
        /\ \E d \in DOMAIN LedgerOf(out[p].before.data, call[p].user).daily :
               d # loc[p].today

---------------------------------------------------------------------------
(* track_usage against cleanup_old_sessions *)

\* Process 1 records events and process 2 sweeps the sessions of a@x.com,
\* MaxRaceCalls calls each, on a file that holds a store, while the clock
\* runs.
RaceEvents ==
    {TrackCallOf("a@x.com", Gpt4, 1, 2, "s2"),
     TrackCallOf("b@x.com", Gpt4, 1, 2, None)}

InitRace == InitWith({Stored(SeedStore)})

NextRace ==
    \/ Tick
    \/ \E p \in {1} :
        \/ TrackCall(p, RaceEvents, ncalls[p] < MaxRaceCalls)
        \/ TrackToday(p)
        \/ TrackMonth(p)
        \/ TrackLoad(p)
        \/ TrackDump(p)
    \/ \E p \in {2} :
        \/ CleanupCall(p, {"a@x.com"}, KeepDays, ncalls[p] < MaxRaceCalls)
        \/ CleanupLoad(p)
        \/ CleanupDump(p)
        \/ Close(p)
    \/ \E p \in {1, 2} :
        \/ FileCheck(p)
        \/ Lock(p)
        \/ Truncate(p)
        \/ Unlock(p)

SpecRace == InitRace /\ [][NextRace]_vars

\* one track_usage call and one cleanup_old_sessions call have been made
\* and both have returned
RaceOver ==
    /\ pc[1] = "done" /\ call[1].op = "track_usage" /\ ncalls[1] = 1
    /\ pc[2] = "done" /\ call[2].op = "cleanup_old_sessions" /\ ncalls[2] = 1

\* the sessions the sweeps of the log removed
Swept == UNION {recorded[k].swept : k \in 1..Len(recorded)}

\* every entry of h is an entry of g
EntriesKept(h, g) == \A i \in 1..Len(h) : \E j \in 1..Len(g) : g[j] = h[i]

\* the store holds event r on top of what the store `old` held
Reflects(store, old, r) ==
    LET u == r.user
    IN  /\ DailyOf(store, u, r.today).tokens_total
              = DailyOf(old, u, r.today).tokens_total + Tokens(r)
        /\ MonthlyOf(store, u, r.month).tokens_total
              = MonthlyOf(old, u, r.month).tokens_total + Tokens(r)
        /\ EntriesKept(<<r.entry>>, LedgerOf(store, u).history)

\* the store holds what the store `old` held, the sessions in `gone` aside
Keeps(store, old, gone) ==
    \A v \in DOMAIN old :
        /\ v \in DOMAIN store
        /\ \A d \in DOMAIN old[v].daily :
               DailyOf(store, v, d).tokens_total >= old[v].daily[d].tokens_total
        /\ \A m \in DOMAIN old[v].monthly :
               MonthlyOf(store, v, m).tokens_total >= old[v].monthly[m].tokens_total
        /\ EntriesKept(old[v].history, store[v].history)
        /\ (DOMAIN old[v].sessions) \ gone \subseteq DOMAIN store[v].sessions

\* C32: when a track_usage call and a cleanup_old_sessions call have run
\* concurrently on a valid store and both have returned, the file parses
\* as a store, the event is in the user's daily and monthly buckets and
\* history, and everything recorded before the two calls is still there,
\* the swept sessions aside.
C32_TrackAndCleanup ==
    RaceOver =>
        /\ Parses(file)
        /\ \A k \in 1..Len(recorded) :
               recorded[k].kind = "event" => Reflects(file.data, start.data, recorded[k])
        /\ \E k \in 1..Len(recorded) : recorded[k].kind = "event"
        /\ Keeps(file.data, start.data, Swept)

=============================================================================
